---------------------------- MODULE Spec2Model ----------------------------
(***************************************************************************)
(* A model of the OSv virtual memory manager with per-CPU superblocks      *)
(* (core/mmu.cc, stored as src/flake.nix): the superblock manager, the     *)
(* per-shard VMA registry and free-range map, map_anon / munmap /          *)
(* mprotect and the page-fault path.                                       *)
(*                                                                         *)
(* Addresses are bytes of a scaled-down address space: a page is 4 bytes,  *)
(* a huge page 2 pages, a superblock 4 pages, and unsigned arithmetic      *)
(* wraps at U64 (standing for 2^64) and U32 (standing for 2^32).           *)
(***************************************************************************)
EXTENDS Integers, Sequences, FiniteSets, TLC

----------------------------------------------------------------------------
(* Address constants (mmu-defs.hh, used throughout mmu.cc)                 *)

page_size == 4
huge_page_size == 8
superblock_size == 16
superblock_area_base == 16
superblock_len == 2
main_mem_area_base == superblock_area_base + superblock_len * superblock_size
lower_vma_limit == 0
upper_vma_limit == main_mem_area_base
max_cpus == 2
FREE == 255
U64 == 256
U32 == 16
Bit63 == U64 \div 2

(* Bounds of the model *)
MaxOps == 4

Cpus == 0 .. (max_cpus - 1)
Workers == 0 .. max_cpus
shared_worker == max_cpus
NoThread == 99
NoKey == 999

Add64(a, b) == (a + b) % U64
Sub64(a, b) == (a - b + U64) % U64
Sub32(a, b) == (a - b + 2 * U32) % U32

align_down(x, a) == x - (x % a)
align_up(x, a) == align_down(Add64(x, a - 1), a)

MinOf(S) == CHOOSE x \in S : \A y \in S : x <= y
MaxOf(S) == CHOOSE x \in S : \A y \in S : x >= y

----------------------------------------------------------------------------
(* std::map<uintptr_t, u64> free_ranges                                    *)

EmptyMap == [x \in {} |-> 0]
MapAssign(f, k, v) == [x \in (DOMAIN f) \cup {k} |-> IF x = k THEN v ELSE f[x]]
MapInsert(f, k, v) == IF k \in DOMAIN f THEN f ELSE MapAssign(f, k, v)
MapErase(f, k) == [x \in (DOMAIN f) \ {k} |-> f[x]]

----------------------------------------------------------------------------
(* superblock_manager: pure parts                                          *)

superblock_index(addr) == (addr - superblock_area_base) \div superblock_size

superblock_ptr(s) == Add64(s * superblock_size, superblock_area_base)

owner(sb, addr) ==
    IF addr < superblock_area_base \/ addr >= main_mem_area_base
    THEN shared_worker
    ELSE sb[superblock_index(addr)]

(* prev_range: the last interval whose key is <= addr, or NoKey *)
prev_range(fr, addr) ==
    LET le == {k \in DOMAIN fr : k <= addr}
    IN IF le = {} THEN NoKey ELSE MaxOf(le)

NextKey(fr, k) ==
    LET gt == {x \in DOMAIN fr : x > k}
    IN IF gt = {} THEN NoKey ELSE MinOf(gt)

(* allocate_range: ok = FALSE when one of its assertions fails *)
allocate_range(fr, addr, size) ==
    LET it == prev_range(fr, addr)
    IN IF it = NoKey THEN [ok |-> FALSE, fr |-> fr]
       ELSE IF ~(fr[it] >= size) THEN [ok |-> FALSE, fr |-> fr]
       ELSE IF it = addr
            THEN LET s == fr[it]
                     e == MapErase(fr, it)
                 IN [ok |-> TRUE,
                     fr |-> IF s > size
                            THEN MapInsert(e, Add64(addr, size), Sub64(s, size))
                            ELSE e]
            ELSE LET offset == Sub64(addr, it)
                     s == Sub64(fr[it], offset)
                     a == MapAssign(fr, it, offset)
                 IN [ok |-> TRUE,
                     fr |-> IF s > size
                            THEN MapInsert(a, Add64(Add64(addr, offset), size),
                                           Sub64(s, size))
                            ELSE a]

(* free_range without its two merges *)
free_range_insert_only(fr, addr, size) == MapInsert(fr, addr, size)

(* free_range(addr, size, owner) on the owner's map *)
free_range(fr, addr, size) ==
    LET opt == prev_range(fr, addr)
        merge == opt # NoKey /\ Add64(opt, fr[opt]) = addr
        it == IF merge THEN opt ELSE addr
        f1 == IF merge THEN MapAssign(fr, opt, Add64(fr[opt], size))
              ELSE MapInsert(fr, addr, size)
        next == NextKey(f1, it)
    IN IF next # NoKey /\ next = Add64(addr, size)
       THEN MapErase(MapAssign(f1, it, Add64(f1[it], f1[next])), next)
       ELSE f1

(* the first-fit loop of reserve_range: the first interval, in key order,  *)
(* whose length is >= size                                                 *)
FitKeys(fr, size) == {k \in DOMAIN fr : fr[k] >= size}

first_fit(fr, size) ==
    LET k == MinOf(FitKeys(fr, size))
    IN IF fr[k] > size
       THEN [res |-> Add64(k, Sub64(fr[k], size)),
             fr |-> MapAssign(fr, k, Sub64(fr[k], size))]
       ELSE [res |-> k, fr |-> MapErase(fr, k)]


----------------------------------------------------------------------------
(* VMAs and the per-worker registry (boost::intrusive::set keyed by start) *)

NoVma == [start |-> NoKey, end |-> NoKey, perm |-> {}, flags |-> {},
          kind |-> "none", off |-> 0]

(* vma::vma aligns the range it is given *)
anon_vma(start, end, perm, flags) ==
    [start |-> align_down(start, page_size), end |-> align_up(end, page_size),
     perm |-> perm, flags |-> flags, kind |-> "anon", off |-> 0]

(* file_vma::file_vma: always mmap_small *)
file_vma(start, end, perm, flags, offset) ==
    [start |-> align_down(start, page_size), end |-> align_up(end, page_size),
     perm |-> perm, flags |-> flags \cup {"small"}, kind |-> "file",
     off |-> offset]

(* shm_file::mmap, map_file_mmap: a file_vma whose provider is             *)
(* map_file_page_mmap over the shm_file                                    *)
shm_vma(start, end, perm, flags, offset) ==
    [file_vma(start, end, perm, flags, offset) EXCEPT !.kind = "shm"]

vma_set(v, start, end) ==
    [v EXCEPT !.start = align_down(start, page_size),
              !.end = align_up(end, page_size)]

lower_bound(list, a) ==
    LET ge == {v \in list : v.start >= a}
    IN IF ge = {} THEN NoVma
       ELSE CHOOSE v \in ge : \A u \in ge : v.start <= u.start

prev_vma(list, v) ==
    LET lt == {u \in list : u.start < v.start}
    IN IF lt = {} THEN NoVma
       ELSE CHOOSE u \in lt : \A x \in lt : x.start <= u.start

VmaAt(list, k) ==
    IF \E v \in list : v.start = k
    THEN CHOOSE v \in list : v.start = k
    ELSE NoVma

NextVmaKey(list, k) ==
    LET gt == {v.start : v \in {u \in list : u.start > k}}
    IN IF gt = {} THEN NoKey ELSE MinOf(gt)

find_intersecting_vma(list, addr) ==
    LET vma == lower_bound(list, addr)
    IN IF vma.start = addr THEN vma
       ELSE LET p == prev_vma(list, vma)
            IN IF p # NoVma /\ addr >= p.start /\ addr < p.end
               THEN p ELSE NoVma

(* find_intersecting_vmas: the start keys of the iterator pair, NoKey for  *)
(* end(); its assertion is SameOwner, checked by the callers below         *)
find_intersecting_vmas(list, rstart, rend) ==
    IF rend <= rstart THEN [first |-> NoKey, second |-> NoKey]
    ELSE LET lb == lower_bound(list, rstart)
             pv == prev_vma(list, lb)
             start == IF lb.start > rstart /\ pv # NoVma /\ pv.end > rstart
                      THEN pv ELSE lb
         IN IF start.start >= rend
            THEN [first |-> NoKey, second |-> NoKey]
            ELSE [first |-> start.start,
                  second |-> lower_bound(list, rend).start]

SameOwner(sb, rstart, rend) == owner(sb, rstart) = owner(sb, Sub64(rend, 1))

RangeVmas(list, r) ==
    {v \in list : r.first # NoKey /\ v.start >= r.first /\ v.start < r.second}

RECURSIVE ismapped_loop(_, _, _)
ismapped_loop(vs, start, end) ==
    IF vs = {} THEN FALSE
    ELSE LET p == CHOOSE v \in vs : \A u \in vs : v.start <= u.start
         IN IF p.start > start THEN FALSE
            ELSE IF p.end >= end THEN TRUE
            ELSE ismapped_loop(vs \ {p}, p.end, end)

ismapped(list, start, end) ==
    ismapped_loop(RangeVmas(list, find_intersecting_vmas(list, start, end)),
                  start, end)

contains(start, end, y) == y.start >= start /\ y.end <= end

(* anon_vma::validate_perm accepts everything; file_vma::validate_perm     *)
(* refuses a writable shared mapping of a file that is open read-only      *)
validate_perm(v, perm) ==
    IF v.kind = "file" /\ "write" \in perm /\ "shared" \in v.flags
    THEN "EACCES" ELSE "ok"

----------------------------------------------------------------------------
(* Leaf page-table entries and the walkers                                 *)

(* the one 2 MiB region of the high half that vpopulate, vdepopulate and  *)
(* vcleanup work on: in_vma_range is false from bit 63 on                  *)
in_vma_range(addr) == addr < Bit63
HighPages == {a \in Bit63 .. (Bit63 + huge_page_size - 1) : a % page_size = 0}

Pages == {a \in 0 .. (upper_vma_limit - 1) : a % page_size = 0} \cup HighPages

ZeroPage == [b \in 0 .. (page_size - 1) |-> 0]

NoPte == [present |-> FALSE, valid |-> FALSE, writable |-> FALSE,
          executable |-> FALSE, rsvd |-> FALSE, large |-> FALSE,
          table |-> FALSE, cow |-> FALSE, frame |-> 0, data |-> ZeroPage]

make_leaf_pte(perm, data) ==
    [present |-> TRUE, valid |-> perm # {}, writable |-> "write" \in perm,
     executable |-> "exec" \in perm, rsvd |-> FALSE, large |-> FALSE,
     table |-> FALSE, cow |-> FALSE, frame |-> 0, data |-> data]

(* change_perm: if (pte_is_cow(pte)) perm &= ~perm_write *)
cow_perm(pte, perm) == IF pte.cow THEN perm \ {"write"} ELSE perm

(* a change_perm that does not look at the copy-on-write bit *)
change_perm_any(pte, perm) ==
    [pte EXCEPT !.valid = TRUE, !.writable = "write" \in perm,
                !.executable = "exec" \in perm, !.rsvd = (perm = {})]

change_perm(pte, perm) ==
    [pte EXCEPT !.valid = TRUE, !.writable = "write" \in cow_perm(pte, perm),
                !.executable = "exec" \in cow_perm(pte, perm),
                !.rsvd = (cow_perm(pte, perm) = {})]

(* operate_range: the pages of [start, start + max(align_up(size), page)) *)
(* operate_range: start = align_down(start, page_size), size =             *)
(* max(align_up(size, page_size), page_size)                               *)
RangeStart(start) == align_down(start, page_size)
RangeLen(size) ==
    IF align_up(size, page_size) > page_size
    THEN align_up(size, page_size) ELSE page_size

RangePages(start, size) ==
    {p \in Pages : p >= RangeStart(start)
                   /\ p < RangeStart(start) + RangeLen(size)}

(* the file every file mapping maps: FileSize bytes, none of them zero *)
FileSize == 10
FileByte(o) == o + 1

(* the shm_file every shm mapping maps, and ::size(_file) of a file VMA *)
ShmSize == superblock_size
fsize(v) == IF v.kind = "shm" THEN ShmSize ELSE FileSize

(* map_file_page_read::fill: read size bytes at foffset + offset and zero  *)
(* the tail that a short read left                                         *)
file_fill(foffset, offset) ==
    LET pos == foffset + offset
        got == IF pos >= FileSize THEN 0
               ELSE IF FileSize - pos < page_size THEN FileSize - pos
               ELSE page_size
        resid == page_size - got
        tail == IF resid < page_size THEN resid ELSE page_size
    IN [b \in 0 .. (page_size - 1) |->
          IF b >= page_size - tail THEN 0 ELSE FileByte(pos + b)]

(* page_allocator::map's page for page p of VMA v: map_file_page_read      *)
(* reads the file, the anonymous providers and shm_file::page give zeroes  *)
provider_fill(v, p) ==
    IF v.kind = "file" THEN file_fill(v.off, Sub64(p, v.start)) ELSE ZeroPage

(* page_allocator::unmap: the anonymous providers and map_file_page_read   *)
(* clear the entry and return true; map_file_page_mmap asks the file's     *)
(* put_page, and shm_file::put_page returns false and writes nothing       *)
provider_unmap(v) == v.kind # "shm"

(* the 2 MiB region of a page, named by its first page, and its slots *)
HugeBase(p) == align_down(p, huge_page_size)
RegionPages(h) == {p \in Pages : HugeBase(p) = h}

(* map_level at level 1, read off the slots of region h: the entry is      *)
(* empty, a large leaf, or points to a level-0 table                       *)
pmd_empty(pt, h) == ~pt[h].large /\ ~pt[h].table
pmd_valid(pt, h) == pt[h].table \/ (pt[h].large /\ pt[h].valid)

(* the walk handles region h at level 1: the range covers all of it and    *)
(* level < nr_page_sizes                                                   *)
whole_region(h, start, size, nr_page_sizes) ==
    /\ nr_page_sizes > 1
    /\ RangeStart(start) <= h
    /\ h + huge_page_size <= RangeStart(start) + RangeLen(size)

(* the range reaches into region h; page p lies in the range *)
touches(h, start, size) ==
    h < RangeStart(start) + RangeLen(size) /\ RangeStart(start) < h + huge_page_size
in_range(p, start, size) ==
    RangeStart(start) <= p /\ p < RangeStart(start) + RangeLen(size)

(* split_large_page: a table whose entries are the leaf's, by page *)
split_slot(pte) == [pte EXCEPT !.large = FALSE, !.table = TRUE]

(* the populate walk, populate::page at either level: an empty level-1     *)
(* entry wholly in the range gets a large leaf; a range that covers part   *)
(* of a region, or a region that has a table, is filled slot by slot, a    *)
(* missing table allocated and a large leaf split first; a non-empty entry *)
(* is left as it is. (A large leaf without permission makes the walk of a  *)
(* part of it follow the leaf as a table; no populated VMA lacks all       *)
(* permissions here.)                                                      *)
populate_walk(pt, v, addr, size, nr_page_sizes) ==
    [p \in DOMAIN pt |->
        LET h == HugeBase(p)
            whole == whole_region(h, addr, size, nr_page_sizes)
        IN IF ~touches(h, addr, size) THEN pt[p]
           ELSE IF whole /\ pmd_empty(pt, h)
           THEN [make_leaf_pte(v.perm, provider_fill(v, p))
                   EXCEPT !.large = TRUE]
           ELSE IF pt[h].large /\ (whole \/ ~pt[h].valid) THEN pt[p]
           ELSE IF in_range(p, addr, size) /\ ~pt[p].present
           THEN [make_leaf_pte(v.perm, provider_fill(v, p))
                   EXCEPT !.table = TRUE]
           ELSE split_slot(pt[p])]

(* populate and populate_small (nr_page_sizes() == 1) *)
populate(pt, v, addr, size) == populate_walk(pt, v, addr, size, 2)
populate_small(pt, v, addr, size) == populate_walk(pt, v, addr, size, 1)

(* populate_vma *)
populate_vma(pt, v, addr, size) ==
    IF "small" \in v.flags THEN populate_small(pt, v, addr, size)
    ELSE populate(pt, v, addr, size)

(* the unpopulate walk of VMA v's provider. A region wholly in the range:  *)
(* a large leaf is unmapped by page() at level 1; a table is walked and    *)
(* then unlinked by intermediate_page_post, which takes every slot with    *)
(* it. A region partly in the range: nothing without a valid level-1       *)
(* entry (allocate_intermediate is off), else a large leaf is split and    *)
(* the non-empty slots of the range are unmapped                           *)
unpopulate(pt, v, start, size) ==
    [p \in DOMAIN pt |->
        LET h == HugeBase(p)
            whole == whole_region(h, start, size, 2)
        IN IF ~touches(h, start, size) THEN pt[p]
           ELSE IF whole
           THEN IF pt[h].large /\ ~provider_unmap(v) THEN pt[p] ELSE NoPte
           ELSE IF ~pmd_valid(pt, h) THEN pt[p]
           ELSE IF in_range(p, start, size) /\ pt[p].present
                   /\ provider_unmap(v)
           THEN [NoPte EXCEPT !.table = TRUE]
           ELSE split_slot(pt[p])]

(* tlb_gather::max_pages (20), scaled *)
max_pages == 2

(* the entries unpopulate::page is called on, named by their first page: a *)
(* large leaf wholly in the range once, else the non-empty slots the walk  *)
(* reaches                                                                 *)
unpopulate_pages(pt, start, size) ==
    {p \in RangePages(start, size) :
        LET h == HugeBase(p)
        IN IF whole_region(h, start, size, 2) /\ pt[h].large THEN p = h
           ELSE /\ pt[p].present
                /\ whole_region(h, start, size, 2) \/ pmd_valid(pt, h)}

(* what a walk has done so far (ev: entries cleared, TLB flushes and pages *)
(* freed, in order), the pages its tlb_gather holds, and do_flush          *)
NoWalk == [ev |-> <<>>, pages |-> <<>>, do_flush |-> FALSE]

(* a tlb_gather::flush that frees its pages without flushing the TLB *)
tlb_gather_free_only(W) ==
    [W EXCEPT !.ev = @ \o [i \in 1 .. Len(W.pages) |->
                              [e |-> "free", page |-> W.pages[i]]],
              !.pages = <<>>]

(* tlb_gather::flush: nothing if it holds no page, else flush_tlb_all and  *)
(* then free every page                                                    *)
tlb_gather_flush(W) ==
    IF W.pages = <<>> THEN W
    ELSE [W EXCEPT !.ev = @ \o <<[e |-> "flush", page |-> 0]>>
                          \o [i \in 1 .. Len(W.pages) |->
                                [e |-> "free", page |-> W.pages[i]]],
                   !.pages = <<>>]

(* tlb_gather::push: flush when full, then take the page *)
tlb_gather_push(W, p) ==
    LET flushed == Len(W.pages) = max_pages
        W1 == IF flushed THEN tlb_gather_flush(W) ELSE W
    IN [W1 EXCEPT !.pages = Append(@, p), !.do_flush = ~flushed]

(* unpopulate::page on the entry at p: the provider's unmap clears it and  *)
(* the page is gathered, or unmap refuses and only do_flush is set         *)
unpopulate_page(W, v, p) ==
    IF provider_unmap(v)
    THEN tlb_gather_push([W EXCEPT !.ev = Append(@, [e |-> "clear", page |-> p])],
                         p)
    ELSE [W EXCEPT !.do_flush = TRUE]

RECURSIVE unpopulate_each(_, _, _)
unpopulate_each(W, v, todo) ==
    IF todo = {} THEN W
    ELSE unpopulate_each(unpopulate_page(W, v, MinOf(todo)), v,
                         todo \ {MinOf(todo)})

(* operate_range(unpopulate): the walk, then tlb_flush_needed (the         *)
(* gather's flush, and do_flush if that did nothing) decides on            *)
(* flush_tlb_all. The result is the order of events                        *)
unpopulate_events(pt, v, start, size) ==
    LET W == unpopulate_each(NoWalk, v, unpopulate_pages(pt, start, size))
        G == tlb_gather_flush(W)
    IN IF W.pages = <<>> /\ W.do_flush
       THEN Append(G.ev, [e |-> "flush", page |-> 0])
       ELSE G.ev

(* the permissions change_perm reads from the entry it is given *)
old_perm(pte) ==
    (IF pte.valid THEN {"read"} ELSE {})
      \cup (IF pte.writable THEN {"write"} ELSE {})
      \cup (IF pte.executable THEN {"exec"} ELSE {})

(* what change_perm returns (x86_64, old & ~perm): the entry loses a       *)
(* permission it had, so the TLB must be flushed                           *)
perm_taken(pte, perm) == old_perm(pte) \ cow_perm(pte, perm) # {}

(* the entries the protection walk reaches: the non-empty ones of the      *)
(* range, but none of a region partly in the range whose level-1 entry is  *)
(* not valid                                                               *)
protection_reaches(pt, p, start, size) ==
    /\ in_range(p, start, size)
    /\ pt[p].present
    /\ whole_region(HugeBase(p), start, size, 2) \/ pmd_valid(pt, HugeBase(p))

protection_writes(pt, start, size) ==
    {p \in RangePages(start, size) : protection_reaches(pt, p, start, size)}

(* protection::tlb_flush_needed after the walk of the range *)
protection_flush(pt, start, size, perm) ==
    \E p \in protection_writes(pt, start, size) : perm_taken(pt[p], perm)

(* the pages of S in address order *)
RECURSIVE InOrder(_)
InOrder(S) ==
    IF S = {} THEN <<>>
    ELSE LET p == CHOOSE x \in S : \A y \in S : x <= y
         IN <<p>> \o InOrder(S \ {p})

(* operate_range(protection(perm)) as events: the walk begins, change_perm *)
(* writes the entries it reaches, and after map_range the TLB is flushed   *)
(* if tlb_flush_needed()                                                   *)
protection_events(pt, start, size, perm) ==
    LET ps == InOrder(protection_writes(pt, start, size))
    IN <<[e |-> "walk", page |-> start]>>
         \o [k \in 1 .. Len(ps) |-> [e |-> "perm", page |-> ps[k]]]
         \o (IF protection_flush(pt, start, size, perm)
             THEN <<[e |-> "flush", page |-> 0]>> ELSE <<>>)

(* protection: change_perm on every entry the walk reaches, a large leaf   *)
(* partly in the range split first                                         *)
protection(pt, start, size, perm) ==
    [p \in DOMAIN pt |->
        LET h == HugeBase(p)
            whole == whole_region(h, start, size, 2)
        IN IF protection_reaches(pt, p, start, size)
           THEN IF whole THEN change_perm(pt[p], perm)
                ELSE change_perm(split_slot(pt[p]), perm)
           ELSE IF touches(h, start, size) /\ ~whole /\ pmd_valid(pt, h)
           THEN split_slot(pt[p])
           ELSE pt[p]]

----------------------------------------------------------------------------
(* Operations on the registries. M is the memory they work on: the VMA     *)
(* lists (vl), the free-range maps (fr), the page table (pt) and ab, set   *)
(* when an assertion fails. sb is the superblock table. An index outside   *)
(* the workers array is undefined behaviour: with ub the kernel crashes,   *)
(* without it the access lands outside the modelled memory.                *)

(* superblock_manager::insert into the list of the owner of v's start; the *)
(* list is a set, which refuses a second VMA with the same start           *)
insert(sb, M, v, ub) ==
    LET o == owner(sb, v.start)
    IN IF o \in Workers
       THEN IF \E x \in M.vl[o] : x.start = v.start
            THEN M
            ELSE [M EXCEPT !.vl[o] = @ \cup {v}]
       ELSE IF ub THEN [M EXCEPT !.ab = TRUE] ELSE M

(* a split whose new VMA starts at the file offset of the old one *)
split_same_offset(sb, M, w, v, edge, ub) ==
    IF edge <= v.start \/ edge >= v.end THEN M
    ELSE insert(sb, [M EXCEPT !.vl[w] = (@ \ {v}) \cup {vma_set(v, v.start, edge)}],
                vma_set(v, edge, v.end), ub)

(* anon_vma::split and file_vma::split of VMA v, which is in worker w's list *)
split(sb, M, w, v, edge, ub) ==
    IF edge <= v.start \/ edge >= v.end THEN M
    ELSE LET n == IF v.kind = "file"
                  THEN file_vma(edge, v.end, v.perm, v.flags,
                                v.off + (edge - v.start))
                  ELSE IF v.kind = "shm"
                  THEN shm_vma(edge, v.end, v.perm, v.flags,
                               v.off + (edge - v.start))
                  ELSE anon_vma(edge, v.end, v.perm, v.flags)
             t == vma_set(v, v.start, edge)
         IN insert(sb, [M EXCEPT !.vl[w] = (@ \ {v}) \cup {t}], n, ub)

(* an evacuate(vma&) that does not give the range back *)
evacuate_vma_erase_only(sb, M, dead) ==
    [M EXCEPT !.pt = unpopulate(M.pt, dead, dead.start, dead.end - dead.start),
              !.vl = [w \in DOMAIN M.vl |-> M.vl[w] \ {dead}]]

(* evacuate(vma&): unpopulate, free_range(start, size) with its assertion, *)
(* erase from workers[owner(dead)]                                         *)
evacuate_vma(sb, M, dead) ==
    LET o == owner(sb, dead.start)
    IN IF o \notin Workers
       THEN [M EXCEPT !.pt = unpopulate(M.pt, dead, dead.start, dead.end - dead.start),
                      !.ev = @ \o unpopulate_events(M.pt, dead, dead.start,
                                                    dead.end - dead.start),
                      !.ab = TRUE]
       ELSE [M EXCEPT !.pt = unpopulate(M.pt, dead, dead.start, dead.end - dead.start),
                      !.ev = @ \o unpopulate_events(M.pt, dead, dead.start,
                                                    dead.end - dead.start),
                      !.fr[o] = free_range(@, dead.start, dead.end - dead.start),
                      !.vl[o] = @ \ {dead}]

(* the loop of evacuate(start, end) over worker w's list, from the VMA     *)
(* keyed cur up to the one keyed stop                                      *)
RECURSIVE evacuate_loop(_, _, _, _, _, _, _, _)
evacuate_loop(sb, M, w, cur, stop, start, end, ub) ==
    IF M.ab \/ cur = NoKey \/ cur >= stop THEN M
    ELSE LET M1 == split(sb, M, w, VmaAt(M.vl[w], cur), end, ub)
             M2 == split(sb, M1, w, VmaAt(M1.vl[w], cur), start, ub)
             i == VmaAt(M2.vl[w], cur)
             M3 == IF contains(start, end, i) THEN evacuate_vma(sb, M2, i)
                   ELSE M2
         IN evacuate_loop(sb, M3, w, NextVmaKey(M3.vl[w], cur), stop,
                          start, end, ub)

(* evacuate(start, end); find_intersecting_vmas asserts that both ends     *)
(* have one owner                                                          *)
evacuate(sb, M, start, end, ub) ==
    IF ~SameOwner(sb, start, end) THEN [M EXCEPT !.ab = TRUE]
    ELSE LET w == owner(sb, start)
             r == find_intersecting_vmas(M.vl[w], start, end)
         IN evacuate_loop(sb, M, w, r.first, r.second, start, end, ub)

(* the VMAs of a find_intersecting_vmas range, in list order from cur *)
RECURSIVE depopulate_loop(_, _, _, _, _, _)
depopulate_loop(pt, list, cur, stop, start, length) ==
    IF cur = NoKey \/ cur >= stop THEN pt
    ELSE LET i == VmaAt(list, cur)
             size == i.end - i.start
         IN depopulate_loop(
                unpopulate(pt, i, start, IF length < size THEN length ELSE size),
                list, NextVmaKey(list, cur), stop,
                Add64(start, size), Sub64(length, size))

(* depopulate(addr, length): unpopulate min(length, i->size()) bytes at    *)
(* start for each VMA i of the range, start and length moved on by         *)
(* i->size()                                                               *)
depopulate(pt, list, addr, length) ==
    LET len == align_up(length, page_size)
        r == find_intersecting_vmas(list, addr, Add64(addr, len))
    IN depopulate_loop(pt, list, r.first, r.second, addr, len)

(* splithugepages (nr_page_sizes() == 1, page() does nothing): every large *)
(* leaf the range touches is split                                         *)
splithugepages(pt, start, size) ==
    [p \in DOMAIN pt |->
        IF RegionPages(HugeBase(p)) \cap RangePages(start, size) # {}
           /\ pt[HugeBase(p)].large /\ pt[HugeBase(p)].valid
        THEN split_slot(pt[p]) ELSE pt[p]]

(* nohugepage(addr, length): each VMA of the range that is not mmap_small  *)
(* becomes so and has its huge pages split                                 *)
RECURSIVE nohugepage_loop(_, _, _, _, _, _)
nohugepage_loop(M, w, cur, stop, start, length) ==
    IF cur = NoKey \/ cur >= stop THEN M
    ELSE LET i == VmaAt(M.vl[w], cur)
             size == i.end - i.start
             M1 == IF "small" \in i.flags THEN M
                   ELSE [M EXCEPT
                           !.vl[w] = (@ \ {i})
                                       \cup {[i EXCEPT !.flags = @ \cup {"small"}]},
                           !.pt = splithugepages(
                                      @, start,
                                      IF length < size THEN length ELSE size)]
         IN nohugepage_loop(M1, w, NextVmaKey(M1.vl[w], cur), stop,
                            Add64(start, size), Sub64(length, size))

nohugepage(M, w, addr, length) ==
    LET len == align_up(length, page_size)
        r == find_intersecting_vmas(M.vl[w], addr, Add64(addr, len))
    IN nohugepage_loop(M, w, r.first, r.second, addr, len)

(* vma::sync of the VMAs of a mapped range, as sync() returns it: an       *)
(* anon_vma has nothing to do, a file_vma that is not mmap_shared gives    *)
(* ENOMEM, a shared one writes its pages back                              *)
sync(list, start, end) ==
    LET vs == RangeVmas(list, find_intersecting_vmas(list, start, end))
    IN IF vs = {} THEN "ENOMEM"
       ELSE IF \E v \in vs : v.kind # "anon" /\ "shared" \notin v.flags
       THEN "ENOMEM" ELSE "ok"

(* a protect() that skips no VMA *)
never_same_perm(v, perm) == FALSE

(* protect(): if (i->perm() == perm) continue *)
same_perm(v, perm) == v.perm = perm

(* the loop of protect(); err is set when validate_perm refuses, wr        *)
(* collects the entries written and flush tells whether operate_range      *)
(* flushed the TLB                                                         *)
RECURSIVE protect_loop(_, _, _, _, _, _, _, _, _)
protect_loop(sb, R, w, cur, stop, start, end, perm, ub) ==
    IF R.M.ab \/ R.err # "ok" \/ cur = NoKey \/ cur >= stop THEN R
    ELSE LET M == R.M
             i0 == VmaAt(M.vl[w], cur)
         IN IF same_perm(i0, perm)
            THEN protect_loop(sb, R, w, NextVmaKey(M.vl[w], cur), stop,
                              start, end, perm, ub)
            ELSE IF validate_perm(i0, perm) # "ok"
            THEN [R EXCEPT !.err = validate_perm(i0, perm)]
            ELSE LET M1 == split(sb, M, w, i0, end, ub)
                     M2 == split(sb, M1, w, VmaAt(M1.vl[w], cur), start, ub)
                     i == VmaAt(M2.vl[w], cur)
                     M3 == IF contains(start, end, i)
                           THEN [M2 EXCEPT
                                   !.vl[w] = (@ \ {i}) \cup {[i EXCEPT !.perm = perm]},
                                   !.pt = protection(M2.pt, i.start,
                                                     i.end - i.start, perm),
                                   !.ev = @ \o protection_events(
                                              M2.pt, i.start,
                                              i.end - i.start, perm)]
                           ELSE M2
                     hit == contains(start, end, i)
                     R3 == [R EXCEPT
                              !.M = M3,
                              !.wr = IF hit
                                     THEN @ \cup protection_writes(
                                              M2.pt, i.start, i.end - i.start)
                                     ELSE @,
                              !.flush = IF hit
                                        THEN @ \/ protection_flush(
                                                 M2.pt, i.start,
                                                 i.end - i.start, perm)
                                        ELSE @]
                 IN protect_loop(sb, R3, w,
                                 NextVmaKey(M3.vl[w], cur), stop,
                                 start, end, perm, ub)

protect(sb, M, start, size, perm, ub) ==
    LET end == Add64(start, size)
    IN IF ~SameOwner(sb, start, end)
       THEN [M |-> [M EXCEPT !.ab = TRUE], err |-> "ok", wr |-> {},
             flush |-> FALSE]
       ELSE LET w == owner(sb, start)
                r == find_intersecting_vmas(M.vl[w], start, end)
            IN protect_loop(sb, [M |-> M, err |-> "ok", wr |-> {},
                                 flush |-> FALSE],
                            w, r.first, r.second, start, end, perm, ub)

----------------------------------------------------------------------------
(* State                                                                   *)

VARIABLES
    superblocks,   \* superblock_manager::superblocks: slot -> cpu id or FREE
    free_ranges,   \* workers[w].free_ranges
    vma_list,      \* workers[w].vma_list: a set of VMAs, keyed by start
    ptes,          \* the leaf page-table entries, by page address
    fr_lock,       \* workers[w].free_ranges_mutex: its writer, or NoThread
    pc,            \* where each CPU's thread is
    loc,           \* the locals of the call each thread is in
    aborted,       \* an assertion failed or the kernel crashed
    handed,        \* history: the ranges reserve_range has returned
    last,          \* history: the outcome of the last completed call
    nops,          \* calls started so far
    vma_list_mutex, \* workers[w].vma_list_mutex: its writer and its readers
    page_table_high_mutex, \* its holder, or NoThread
    rcu,           \* osv::rcu: read sections, deferred frees, freed tables
    frames,        \* history: the pages the page-fault steps were given
    vma_range_set  \* vma_store's set of all VMA ranges, keyed by start

(* the state of the lock and RCU steps, which the call-level actions leave *)
(* alone, with the history of the pages the fault steps allocate           *)
(* and vma_store's range set                                               *)
ext == <<vma_list_mutex, page_table_high_mutex, rcu, frames, vma_range_set>>

vars == <<superblocks, free_ranges, vma_list, ptes, fr_lock, pc, loc,
          aborted, handed, last, nops, vma_list_mutex, page_table_high_mutex,
          rcu, frames, vma_range_set>>

Unlocked == [writer |-> NoThread, readers |-> {}]

(* reading: the threads inside rcu_read_lock; deferred: the rcu_defer      *)
(* callbacks not yet run, each with the read sections it waits for;        *)
(* freed: the table pages free_page has taken back; linked: the table the  *)
(* high region's level-1 entry points to (0: none); allocated: tables made *)
NoRcu == [reading |-> {}, deferred |-> {}, freed |-> {}, linked |-> 0,
          allocated |-> 0]

IdleLoc == [op |-> "none", size |-> 0, start |-> 0, perm |-> {}, flags |-> {},
            n |-> 0, i |-> 0, k |-> 0, j |-> 0,
            rel_i |-> 0, rel_end |-> 0, rel_exp |-> 0, hmark |-> 0,
            pre |-> <<>>, todo |-> <<>>, table |-> 0,
            kind |-> "none", fstart |-> 0, fsize |-> 0, level |-> 0,
            raw |-> <<>>, mem |-> <<>>, frame |-> 0]

NoLast == [op |-> "none", cpu |-> 0, addr |-> 0, size |-> 0, perm |-> {},
           res |-> "none", kind |-> "none", val |-> 0, fault |-> FALSE,
           found |-> NoVma, before |-> <<>>, pre |-> <<>>,
           wr |-> {}, flush |-> FALSE, ev |-> <<>>, was |-> <<>>]

Done(op, c, addr, size, res) ==
    [NoLast EXCEPT !.op = op, !.cpu = c, !.addr = addr, !.size = size,
                   !.res = res]

(* vma_list_type::vma_list_type: vma_range_set.insert of the two markers *)
RangeSetInit == {[start |-> lower_vma_limit, end |-> lower_vma_limit],
                 [start |-> upper_vma_limit, end |-> upper_vma_limit]}

(* vma_list_type::vma_list_type: the two zero-size markers *)
Sentinel(a) == [start |-> a, end |-> a, perm |-> {}, flags |-> {},
                kind |-> "anon", off |-> 0]

vma_list_type == {Sentinel(lower_vma_limit), Sentinel(upper_vma_limit)}

(* superblock_manager::superblock_manager *)
Init ==
    /\ superblocks = [s \in 0 .. (superblock_len - 1) |-> FREE]
    /\ free_ranges = [w \in Workers |->
                        IF w = shared_worker
                        THEN MapInsert(MapInsert(EmptyMap, 0, superblock_area_base),
                                       main_mem_area_base,
                                       Sub64(Bit63, main_mem_area_base))
                        ELSE EmptyMap]
    /\ vma_list = [w \in Workers |-> vma_list_type]
    /\ ptes = [p \in Pages |-> NoPte]
    /\ fr_lock = [w \in Workers |-> NoThread]
    /\ pc = [c \in Cpus |-> "idle"]
    /\ loc = [c \in Cpus |-> IdleLoc]
    /\ aborted = FALSE
    /\ handed = {}
    /\ last = NoLast
    /\ nops = 0
    /\ vma_list_mutex = [w \in Workers |-> Unlocked]
    /\ page_table_high_mutex = NoThread
    /\ rcu = NoRcu
    /\ frames = <<>>
    /\ vma_range_set = RangeSetInit

----------------------------------------------------------------------------
(* reserve_range(size) on CPU c, and allocate_superblocks /               *)
(* release_superblocks under it, one atomic access per step                *)

(* the calls that enter the allocator directly; their history entry keeps *)
(* the superblock table and the free-range maps found at the call          *)
AllocatorCalls == {"reserve_range", "allocate_superblocks"}

(* the sizes reserve_range is called with directly *)
ReserveSizes == {page_size, superblock_size - page_size, superblock_size}

(* what follows reserve_range's return in the call the thread is in *)
AfterReserve(c) == IF loc[c].op = "reserve_range" THEN "idle" ELSE "ma_insert"

ReserveReturn(c, res) ==
    /\ handed' = handed \cup {[id |-> Cardinality(handed), cpu |-> c,
                                start |-> res, size |-> loc[c].size]}
    /\ pc' = [pc EXCEPT ![c] = AfterReserve(c)]
    /\ loc' = [loc EXCEPT ![c] = IF loc[c].op = "reserve_range" THEN IdleLoc
                                 ELSE [IdleLoc EXCEPT !.op = loc[c].op,
                                                      !.size = loc[c].size,
                                                      !.perm = loc[c].perm,
                                                      !.flags = loc[c].flags,
                                                      !.pre = loc[c].pre,
                                                      !.start = res]]
    /\ last' = IF loc[c].op = "reserve_range"
               THEN [Done("reserve_range", c, res, loc[c].size, "ok")
                        EXCEPT !.pre = loc[c].pre]
               ELSE last

(* a direct call of reserve_range *)
CallReserve(c, sizes, maxops) ==
    /\ ~aborted /\ pc[c] = "idle" /\ nops < maxops
    /\ \E size \in sizes :
         loc' = [loc EXCEPT ![c] = [IdleLoc EXCEPT !.op = "reserve_range",
                                                   !.size = size]]
    /\ pc' = [pc EXCEPT ![c] = "rr_enter"]
    /\ nops' = nops + 1
    /\ UNCHANGED <<superblocks, free_ranges, vma_list, ptes, fr_lock, aborted,
                   handed, last>>
    /\ UNCHANGED ext

(* SCOPE_LOCK(my.free_ranges_mutex) and the first-fit loop; a fit returns  *)
(* at once, releasing the lock *)
ReserveFit(c) ==
    /\ ~aborted /\ pc[c] = "rr_enter" /\ fr_lock[c] = NoThread
    /\ FitKeys(free_ranges[c], loc[c].size) # {}
    /\ LET r == first_fit(free_ranges[c], loc[c].size)
       IN /\ free_ranges' = [free_ranges EXCEPT ![c] = r.fr]
          /\ ReserveReturn(c, r.res)
    /\ UNCHANGED <<superblocks, vma_list, ptes, fr_lock, aborted, nops>>
    /\ UNCHANGED ext

(* no fit: keep the lock and go for a new superblock *)
ReserveNoFit(c) ==
    /\ ~aborted /\ pc[c] = "rr_enter" /\ fr_lock[c] = NoThread
    /\ FitKeys(free_ranges[c], loc[c].size) = {}
    /\ fr_lock' = [fr_lock EXCEPT ![c] = c]
    /\ pc' = [pc EXCEPT ![c] = "as_scan"]
    /\ loc' = [loc EXCEPT ![c].n = 1, ![c].i = 0, ![c].k = 0]
    /\ UNCHANGED <<superblocks, free_ranges, vma_list, ptes, aborted, handed,
                   last, nops>>
    /\ UNCHANGED ext

(* allocate_superblocks: one iteration of the scan loop (one load) *)
AllocScan(c) ==
    /\ ~aborted /\ pc[c] = "as_scan"
    /\ loc[c].i < superblock_len
    /\ IF superblocks[loc[c].i] # FREE
       THEN /\ loc' = [loc EXCEPT ![c].k = 0, ![c].i = loc[c].i + 1]
            /\ UNCHANGED pc
       ELSE IF loc[c].k + 1 = loc[c].n
       THEN /\ loc' = [loc EXCEPT ![c].k = loc[c].k + 1,
                                  ![c].j = (Sub32(loc[c].i, loc[c].n) + 1) % U32]
            /\ pc' = [pc EXCEPT ![c] = "as_cas"]
       ELSE /\ loc' = [loc EXCEPT ![c].k = loc[c].k + 1, ![c].i = loc[c].i + 1]
            /\ UNCHANGED pc
    /\ UNCHANGED <<superblocks, free_ranges, vma_list, ptes, fr_lock, aborted,
                   handed, last, nops>>
    /\ UNCHANGED ext

(* the scan ends without a run of n free slots: throw make_error(ENOMEM);  *)
(* the exception leaves reserve_range (releasing its lock) and the call    *)
AllocEnomem(c) ==
    /\ ~aborted /\ pc[c] = "as_scan"
    /\ loc[c].i >= superblock_len
    /\ fr_lock' = [fr_lock EXCEPT ![c] = NoThread]
    /\ pc' = [pc EXCEPT ![c] = "idle"]
    /\ last' = [Done(loc[c].op, c, 0, loc[c].size, "ENOMEM")
                   EXCEPT !.pre = IF loc[c].op \in AllocatorCalls
                                  THEN loc[c].pre ELSE <<>>,
                          !.val = IF loc[c].op \in AllocatorCalls
                                  THEN loc[c].n ELSE 0]
    /\ loc' = [loc EXCEPT ![c] = IdleLoc]
    /\ UNCHANGED <<superblocks, free_ranges, vma_list, ptes, aborted, handed,
                   nops>>
    /\ UNCHANGED ext

(* superblocks[j].compare_exchange_weak(free_idx, cpu_id()): on success    *)
(* the inner loop breaks and i-n+1 is returned; on failure (the slot was   *)
(* taken, or the weak CAS failed spuriously) release_superblocks(i-n,      *)
(* j-i-n) is called, in unsigned arithmetic                                *)
AllocCas(c) ==
    /\ ~aborted /\ pc[c] = "as_cas"
    /\ \E spurious \in BOOLEAN :
         IF superblocks[loc[c].j] = FREE /\ ~spurious
         THEN /\ superblocks' = [superblocks EXCEPT ![loc[c].j] = c]
              /\ pc' = [pc EXCEPT ![c] = "rr_finish"]
              /\ loc' = [loc EXCEPT ![c].j = (Sub32(loc[c].i, loc[c].n) + 1) % U32]
         ELSE /\ pc' = [pc EXCEPT ![c] = "release"]
              /\ loc' = [loc EXCEPT
                           ![c].rel_i = Sub32(loc[c].i, loc[c].n),
                           ![c].rel_end = Sub32(loc[c].i, loc[c].n)
                                          + Sub32(Sub32(loc[c].j, loc[c].i), loc[c].n),
                           ![c].rel_exp = c]
              /\ UNCHANGED superblocks
    /\ UNCHANGED <<free_ranges, vma_list, ptes, fr_lock, aborted, handed, last,
                   nops>>
    /\ UNCHANGED ext

(* release_superblocks: one iteration inside the array:                    *)
(* superblocks[i].compare_exchange_weak(cpuid, 255), which on failure      *)
(* loads the slot's value into cpuid                                       *)
ReleaseStep(c) ==
    /\ ~aborted /\ pc[c] = "release"
    /\ loc[c].rel_i < loc[c].rel_end
    /\ loc[c].rel_i < superblock_len
    /\ \E spurious \in BOOLEAN :
         IF superblocks[loc[c].rel_i] = loc[c].rel_exp /\ ~spurious
         THEN /\ superblocks' = [superblocks EXCEPT ![loc[c].rel_i] = FREE]
              /\ loc' = [loc EXCEPT ![c].rel_i = loc[c].rel_i + 1]
         ELSE /\ loc' = [loc EXCEPT ![c].rel_i = loc[c].rel_i + 1,
                                    ![c].rel_exp = superblocks[loc[c].rel_i]]
              /\ UNCHANGED superblocks
    /\ UNCHANGED <<free_ranges, vma_list, ptes, fr_lock, pc, aborted, handed,
                   last, nops>>
    /\ UNCHANGED ext

(* release_superblocks: the index has left the array. The accesses are     *)
(* undefined: the kernel crashes, or the loop runs on over memory that is  *)
(* not part of this model                                                  *)
ReleaseOutOfBounds(c) ==
    /\ ~aborted /\ pc[c] = "release"
    /\ loc[c].rel_i < loc[c].rel_end
    /\ loc[c].rel_i >= superblock_len
    /\ \E crash \in BOOLEAN :
         IF crash
         THEN /\ aborted' = TRUE
              /\ UNCHANGED loc
         ELSE /\ loc' = [loc EXCEPT ![c].rel_i = loc[c].rel_end]
              /\ UNCHANGED aborted
    /\ UNCHANGED <<superblocks, free_ranges, vma_list, ptes, fr_lock, pc,
                   handed, last, nops>>
    /\ UNCHANGED ext

(* release_superblocks returns: return allocate_superblocks(n) *)
ReleaseDone(c) ==
    /\ ~aborted /\ pc[c] = "release"
    /\ loc[c].rel_i >= loc[c].rel_end
    /\ pc' = [pc EXCEPT ![c] = "as_scan"]
    /\ loc' = [loc EXCEPT ![c].i = 0, ![c].k = 0, ![c].j = 0,
                          ![c].rel_i = 0, ![c].rel_end = 0, ![c].rel_exp = 0]
    /\ UNCHANGED <<superblocks, free_ranges, vma_list, ptes, fr_lock, aborted,
                   handed, last, nops>>
    /\ UNCHANGED ext

(* reserve_range after allocate_superblocks(1) returned s: the tail of the *)
(* superblock becomes a free range, the head is returned                   *)
ReserveFinish(c) ==
    /\ ~aborted /\ pc[c] = "rr_finish"
    /\ loc[c].op # "allocate_superblocks"
    /\ LET ret == superblock_ptr(loc[c].j)
       IN /\ free_ranges' = [free_ranges EXCEPT ![c] =
                               free_range(free_ranges[c], Add64(ret, loc[c].size),
                                          Sub64(superblock_size, loc[c].size))]
          /\ ReserveReturn(c, ret)
    /\ fr_lock' = [fr_lock EXCEPT ![c] = NoThread]
    /\ UNCHANGED <<superblocks, vma_list, ptes, aborted, nops>>
    /\ UNCHANGED ext

ReserveSteps(c) ==
    \/ ReserveFit(c)
    \/ ReserveNoFit(c)
    \/ AllocScan(c)
    \/ AllocEnomem(c)
    \/ AllocCas(c)
    \/ ReleaseStep(c)
    \/ ReleaseOutOfBounds(c)
    \/ ReleaseDone(c)
    \/ ReserveFinish(c)

(* threads on distinct CPUs calling reserve_range *)
NextReserve ==
    \E c \in Cpus : CallReserve(c, ReserveSizes, MaxOps) \/ ReserveSteps(c)

SpecReserve == Init /\ [][NextReserve]_vars

----------------------------------------------------------------------------
(* Properties of reserve_range and the superblock table                    *)

RangesDisjoint(s1, e1, s2, e2) == e1 <= s2 \/ e2 <= s1

(* C1: the ranges [v, v+size) returned by all reserve_range calls, under   *)
(* any interleaving of calls from distinct CPUs, are pairwise disjoint     *)
C1_ReservedRangesDisjoint ==
    \A x \in handed : \A y \in handed :
        x.id # y.id =>
            RangesDisjoint(x.start, x.start + x.size, y.start, y.start + y.size)

(* a range returned to worker c lies (begins) inside superblock i *)
HoldsRangeIn(c, i) ==
    \E h \in handed :
        /\ h.cpu = c
        /\ h.start >= superblock_area_base /\ h.start < main_mem_area_base
        /\ superblock_index(h.start) = i

(* C2: once superblocks[i] holds CPU id c and a reserved range of worker c *)
(* lies inside superblock i, superblocks[i] never changes, to FREE or to   *)
(* another CPU id, under any interleaving of reserve_range /               *)
(* allocate_superblocks / release_superblocks                              *)
C2_OwnerNeverChanges ==
    [][\A i \in DOMAIN superblocks :
         (superblocks[i] \in Cpus /\ HoldsRangeIn(superblocks[i], i))
             => superblocks'[i] = superblocks[i]]_vars

----------------------------------------------------------------------------
(* map_anon, munmap, munmap_anon, mprotect. Each step is one critical     *)
(* section of the code; a thread that needs a held free_ranges_mutex waits *)

Mem == [vl |-> vma_list, fr |-> free_ranges, pt |-> ptes, ab |-> FALSE,
        ev |-> <<>>]

SetMem(M) ==
    /\ vma_list' = M.vl
    /\ free_ranges' = M.fr
    /\ ptes' = M.pt
    /\ aborted' = M.ab

(* evacuate(vma&) takes free_ranges_lock(dead.start()) for every VMA it    *)
(* removes from [start, end)                                               *)
CanLockFreeRanges(start, end) ==
    LET o == owner(superblocks, start)
    IN IF o \notin Workers THEN TRUE
       ELSE IF fr_lock[o] = NoThread THEN TRUE
       ELSE RangeVmas(vma_list[o],
                      find_intersecting_vmas(vma_list[o], start, end)) = {}

(* map_anon(addr, size, flags, perm) without mmap_fixed: allocate()        *)
(* searches, which is reserve_range(size)                                  *)
CallMapAnon(c, sizes, perms, flagsets, maxops) ==
    /\ ~aborted /\ pc[c] = "idle" /\ nops < maxops
    /\ \E size \in sizes, perm \in perms, flags \in flagsets :
         loc' = [loc EXCEPT ![c] =
                   [IdleLoc EXCEPT !.op = "map_anon",
                                   !.size = align_up(size, page_size),
                                   !.perm = perm, !.flags = flags,
                                   !.pre = vma_list]]
    /\ pc' = [pc EXCEPT ![c] = "rr_enter"]
    /\ nops' = nops + 1
    /\ UNCHANGED <<superblocks, free_ranges, vma_list, ptes, fr_lock, aborted,
                   handed, last>>
    /\ UNCHANGED ext

(* map_anon with mmap_fixed at addr *)
CallMapFixed(c, addrs, sizes, perms, maxops) ==
    /\ ~aborted /\ pc[c] = "idle" /\ nops < maxops
    /\ \E addr \in addrs, size \in sizes, perm \in perms :
         loc' = [loc EXCEPT ![c] =
                   [IdleLoc EXCEPT !.op = "map_fixed", !.start = addr,
                                   !.size = align_up(size, page_size),
                                   !.perm = perm, !.flags = {"fixed"},
                                   !.pre = vma_list]]
    /\ pc' = [pc EXCEPT ![c] = "fx_evacuate"]
    /\ nops' = nops + 1
    /\ UNCHANGED <<superblocks, free_ranges, vma_list, ptes, fr_lock, aborted,
                   handed, last>>
    /\ UNCHANGED ext

(* allocate(), not searching: WITH_LOCK(vma_lock(start)) evacuate(start,   *)
(* start+size); vma_lock asserts that the owner is a worker                *)
FixEvacuate(c) ==
    /\ ~aborted /\ pc[c] = "fx_evacuate"
    /\ CanLockFreeRanges(loc[c].start, Add64(loc[c].start, loc[c].size))
    /\ IF owner(superblocks, loc[c].start) \notin Workers
       THEN /\ aborted' = TRUE
            /\ UNCHANGED <<vma_list, free_ranges, ptes>>
       ELSE \E ub \in BOOLEAN :
              SetMem(evacuate(superblocks, Mem, loc[c].start,
                              Add64(loc[c].start, loc[c].size), ub))
    /\ pc' = [pc EXCEPT ![c] = "fx_allocate"]
    /\ loc' = [loc EXCEPT ![c].hmark = Cardinality(handed)]
    /\ UNCHANGED <<superblocks, fr_lock, handed, last, nops>>
    /\ UNCHANGED ext

(* allocate(), not searching: sb_mgr->allocate_range(start, size), with    *)
(* neither the VMA lock nor the free_ranges_mutex held                     *)
FixAllocate(c) ==
    /\ ~aborted /\ pc[c] = "fx_allocate"
    /\ LET o == owner(superblocks, loc[c].start)
       IN IF o \notin Workers
          THEN /\ \E ub \in BOOLEAN : aborted' = ub
               /\ UNCHANGED free_ranges
          ELSE LET r == allocate_range(free_ranges[o], loc[c].start, loc[c].size)
               IN /\ aborted' = ~r.ok
                  /\ free_ranges' = [free_ranges EXCEPT ![o] = r.fr]
    /\ pc' = [pc EXCEPT ![c] = "ma_insert"]
    /\ UNCHANGED <<superblocks, vma_list, ptes, fr_lock, loc, handed, last, nops>>
    /\ UNCHANGED ext

(* the VMA the call in flight on c has created *)
NewVma(c) ==
    IF loc[c].op = "map_file"
    THEN file_vma(loc[c].start, Add64(loc[c].start, loc[c].size), loc[c].perm,
                  loc[c].flags \cup {"file"}, 0)
    ELSE IF loc[c].op = "map_shm"
    THEN shm_vma(loc[c].start, Add64(loc[c].start, loc[c].size), loc[c].perm,
                 loc[c].flags \cup {"file"}, 0)
    ELSE anon_vma(loc[c].start, Add64(loc[c].start, loc[c].size), loc[c].perm,
                  loc[c].flags)

(* allocate(): v->set(start, start+size); WITH_LOCK(vma_lock(start))       *)
(* insert(v). Without mmap_populate the call returns here                  *)
MapInsertVma(c) ==
    /\ ~aborted /\ pc[c] = "ma_insert"
    /\ IF owner(superblocks, loc[c].start) \notin Workers
       THEN /\ aborted' = TRUE
            /\ UNCHANGED <<vma_list, free_ranges, ptes>>
       ELSE SetMem(insert(superblocks, Mem, NewVma(c), TRUE))
    /\ IF "populate" \in loc[c].flags
       THEN /\ pc' = [pc EXCEPT ![c] = "ma_populate"]
            /\ UNCHANGED <<loc, last>>
       ELSE /\ pc' = [pc EXCEPT ![c] = "idle"]
            /\ loc' = [loc EXCEPT ![c] = IdleLoc]
            /\ last' = [Done(loc[c].op, c, loc[c].start, loc[c].size, "ok")
                          EXCEPT !.pre = loc[c].pre, !.perm = loc[c].perm]
    /\ UNCHANGED <<superblocks, fr_lock, handed, nops>>
    /\ UNCHANGED ext

(* map_anon / map_file with mmap_populate: WITH_LOCK(vma_lock(v))          *)
(* populate_vma(vma, v, size). If the VMA was unmapped, and so deleted,    *)
(* since its insertion, the use of it is undefined: the kernel crashes or  *)
(* populates from the stale object                                         *)
MapPopulate(c) ==
    /\ ~aborted /\ pc[c] = "ma_populate"
    /\ LET v == NewVma(c)
           o == owner(superblocks, loc[c].start)
           size == IF v.kind # "anon"
                      /\ align_up(fsize(v), page_size) < loc[c].size
                   THEN align_up(fsize(v), page_size) ELSE loc[c].size
       IN IF o \notin Workers
          THEN aborted' = TRUE /\ UNCHANGED ptes
          ELSE \E ub \in BOOLEAN :
                 IF ub /\ v \notin vma_list[o]
                 THEN aborted' = TRUE /\ UNCHANGED ptes
                 ELSE /\ ptes' = populate_vma(ptes, v, loc[c].start, size)
                      /\ UNCHANGED aborted
    /\ pc' = [pc EXCEPT ![c] = "idle"]
    /\ loc' = [loc EXCEPT ![c] = IdleLoc]
    /\ last' = [Done(loc[c].op, c, loc[c].start, loc[c].size, "ok")
                  EXCEPT !.pre = loc[c].pre, !.perm = loc[c].perm]
    /\ UNCHANGED <<superblocks, free_ranges, vma_list, fr_lock, handed, nops>>
    /\ UNCHANGED ext

(* map_file(addr, size, flags, perm, f, 0) without mmap_fixed; the file is *)
(* open for reading only                                                   *)
CallMapFile(c, sizes, perms, flagsets, maxops) ==
    /\ ~aborted /\ pc[c] = "idle" /\ nops < maxops
    /\ \E size \in sizes, perm \in perms, flags \in flagsets :
         /\ validate_perm(file_vma(0, size, perm, flags, 0), perm) = "ok"
         /\ loc' = [loc EXCEPT ![c] =
                      [IdleLoc EXCEPT !.op = "map_file",
                                      !.size = align_up(size, page_size),
                                      !.perm = perm, !.flags = flags,
                                      !.pre = vma_list]]
    /\ pc' = [pc EXCEPT ![c] = "rr_enter"]
    /\ nops' = nops + 1
    /\ UNCHANGED <<superblocks, free_ranges, vma_list, ptes, fr_lock, aborted,
                   handed, last>>
    /\ UNCHANGED ext

(* map_file(addr, size, flags, perm, f, 0) without mmap_fixed, f an        *)
(* shm_file open for reading and writing                                   *)
CallMapShm(c, sizes, perms, flagsets, maxops) ==
    /\ ~aborted /\ pc[c] = "idle" /\ nops < maxops
    /\ \E size \in sizes, perm \in perms, flags \in flagsets :
         loc' = [loc EXCEPT ![c] =
                   [IdleLoc EXCEPT !.op = "map_shm",
                                   !.size = align_up(size, page_size),
                                   !.perm = perm, !.flags = flags,
                                   !.pre = vma_list]]
    /\ pc' = [pc EXCEPT ![c] = "rr_enter"]
    /\ nops' = nops + 1
    /\ UNCHANGED <<superblocks, free_ranges, vma_list, ptes, fr_lock, aborted,
                   handed, last>>
    /\ UNCHANGED ext

(* history: the registries, the free-range maps and the page table as a    *)
(* call finds them                                                         *)
Was == [vl |-> vma_list, fr |-> free_ranges, pt |-> ptes]

(* munmap(addr, length), under vma_lock(addr): EINVAL unless the whole     *)
(* range is mapped, else sync (which changes nothing here) and unmap       *)
Munmap(c, addrs, sizes, maxops) ==
    /\ ~aborted /\ pc[c] = "idle" /\ nops < maxops
    /\ \E addr \in addrs, size \in sizes :
         LET length == align_up(size, page_size)
             end == Add64(addr, length)
             o == owner(superblocks, addr)
             roundtrip == /\ last.op = "map_anon" /\ last.res = "ok"
                          /\ last.cpu = c /\ last.addr = addr
                          /\ last.size = length
             fin(res) == [Done("munmap", c, addr, length, res)
                            EXCEPT !.was = Was,
                                   !.pre = IF roundtrip THEN last.pre ELSE <<>>,
                                   !.kind = IF roundtrip THEN "roundtrip"
                                            ELSE "none"]
         IN /\ CanLockFreeRanges(addr, end)
            /\ IF o \notin Workers \/ ~SameOwner(superblocks, addr, end)
               THEN /\ aborted' = TRUE
                    /\ last' = fin("abort")
                    /\ UNCHANGED <<vma_list, free_ranges, ptes>>
               ELSE IF ~ismapped(vma_list[o], addr, end)
               THEN /\ last' = fin("EINVAL")
                    /\ UNCHANGED <<vma_list, free_ranges, ptes, aborted>>
               ELSE \E ub \in BOOLEAN :
                      LET M == evacuate(superblocks, Mem, addr, end, ub)
                      IN /\ SetMem(M)
                         /\ last' = [fin(IF M.ab THEN "abort" ELSE "ok")
                                       EXCEPT !.before = ptes, !.ev = M.ev]
    /\ nops' = nops + 1
    /\ UNCHANGED <<superblocks, fr_lock, pc, loc, handed>>
    /\ UNCHANGED ext

(* munmap_anon(addr): evacuate the whole VMA that contains addr *)
MunmapAnon(c, addrs, maxops) ==
    /\ ~aborted /\ pc[c] = "idle" /\ nops < maxops
    /\ \E addr \in addrs :
         LET o == owner(superblocks, addr)
             v == find_intersecting_vma(vma_list[o], addr)
         IN IF o \notin Workers
            THEN /\ aborted' = TRUE
                 /\ last' = Done("munmap_anon", c, addr, 0, "abort")
                 /\ UNCHANGED <<vma_list, free_ranges, ptes>>
            ELSE IF v = NoVma
            THEN /\ last' = Done("munmap_anon", c, addr, 0, "EINVAL")
                 /\ UNCHANGED <<vma_list, free_ranges, ptes, aborted>>
            ELSE /\ LET d == owner(superblocks, v.start)
                    IN IF d \in Workers THEN fr_lock[d] = NoThread ELSE TRUE
                 /\ LET M == evacuate_vma(superblocks, Mem, v)
                    IN /\ SetMem(M)
                       /\ last' = [Done("munmap_anon", c, addr, 0,
                                         IF M.ab THEN "abort" ELSE "ok")
                                     EXCEPT !.ev = M.ev]
    /\ nops' = nops + 1
    /\ UNCHANGED <<superblocks, fr_lock, pc, loc, handed>>
    /\ UNCHANGED ext

(* mprotect(addr, len, perm), under vma_lock(addr): ENOMEM unless the      *)
(* whole range is mapped, else protect()                                   *)
Mprotect(c, addrs, lens, perms, maxops) ==
    /\ ~aborted /\ pc[c] = "idle" /\ nops < maxops
    /\ \E addr \in addrs, len \in lens, perm \in perms :
         LET end == Add64(addr, len)
             o == owner(superblocks, addr)
             repeat == /\ last.op = "mprotect" /\ last.cpu = c
                       /\ last.addr = addr /\ last.size = len
                       /\ last.perm = perm
                       /\ \A d \in Cpus : pc[d] = "idle"
             fin(res) == [Done("mprotect", c, addr, len, res)
                            EXCEPT !.perm = perm, !.before = ptes,
                                   !.pre = vma_list, !.was = Was,
                                   !.kind = IF repeat THEN "repeat"
                                            ELSE "none"]
         IN IF o \notin Workers \/ ~SameOwner(superblocks, addr, end)
            THEN /\ aborted' = TRUE
                 /\ last' = fin("abort")
                 /\ UNCHANGED <<vma_list, free_ranges, ptes>>
            ELSE IF ~ismapped(vma_list[o], addr, end)
            THEN /\ last' = fin("ENOMEM")
                 /\ UNCHANGED <<vma_list, free_ranges, ptes, aborted>>
            ELSE \E ub \in BOOLEAN :
                   LET R == protect(superblocks, Mem, addr, len, perm, ub)
                   IN /\ SetMem(R.M)
                      /\ last' = [fin(IF R.M.ab THEN "abort" ELSE R.err)
                                    EXCEPT !.wr = R.wr, !.flush = R.flush,
                                           !.ev = R.M.ev]
    /\ nops' = nops + 1
    /\ UNCHANGED <<superblocks, fr_lock, pc, loc, handed>>
    /\ UNCHANGED ext

(* madvise: advise(addr, size, advice) under vma_lock(addr).for_write()    *)
Advices == {"dontneed", "nohugepage", "normal"}

Madvise(c, addrs, sizes, maxops) ==
    /\ ~aborted /\ pc[c] = "idle" /\ nops < maxops
    /\ \E addr \in addrs, size \in sizes, advice \in Advices :
         LET end == Add64(addr, size)
             o == owner(superblocks, addr)
             fin(res) == [Done("madvise", c, addr, size, res)
                            EXCEPT !.kind = advice, !.before = ptes,
                                   !.pre = vma_list, !.was = Was]
         IN IF o \notin Workers \/ ~SameOwner(superblocks, addr, end)
            THEN /\ aborted' = TRUE
                 /\ last' = fin("abort")
                 /\ UNCHANGED <<vma_list, ptes>>
            ELSE IF ~ismapped(vma_list[o], addr, end)
            THEN /\ last' = fin("ENOMEM")
                 /\ UNCHANGED <<vma_list, ptes, aborted>>
            ELSE IF ~SameOwner(superblocks, addr,
                               Add64(addr, align_up(size, page_size)))
            THEN /\ aborted' = TRUE
                 /\ last' = fin("abort")
                 /\ UNCHANGED <<vma_list, ptes>>
            ELSE IF advice = "dontneed"
            THEN /\ ptes' = depopulate(ptes, vma_list[o], addr, size)
                 /\ last' = fin("ok")
                 /\ UNCHANGED <<vma_list, aborted>>
            ELSE IF advice = "nohugepage"
            THEN /\ LET M == nohugepage(Mem, o, addr, size)
                    IN vma_list' = M.vl /\ ptes' = M.pt
                 /\ last' = fin("ok")
                 /\ UNCHANGED aborted
            ELSE /\ last' = fin("EINVAL")
                 /\ UNCHANGED <<vma_list, ptes, aborted>>
    /\ nops' = nops + 1
    /\ UNCHANGED <<superblocks, free_ranges, fr_lock, pc, loc, handed>>
    /\ UNCHANGED ext

(* msync(addr, length, flags) under vma_lock(addr).for_read() *)
Msync(c, addrs, sizes, maxops) ==
    /\ ~aborted /\ pc[c] = "idle" /\ nops < maxops
    /\ \E addr \in addrs, size \in sizes :
         LET end == Add64(addr, size)
             o == owner(superblocks, addr)
             fin(res) == [Done("msync", c, addr, size, res)
                            EXCEPT !.before = ptes, !.pre = vma_list,
                                   !.was = Was]
         IN IF o \notin Workers \/ ~SameOwner(superblocks, addr, end)
            THEN /\ aborted' = TRUE
                 /\ last' = fin("abort")
            ELSE IF ~ismapped(vma_list[o], addr, end)
            THEN /\ last' = fin("ENOMEM")
                 /\ UNCHANGED aborted
            ELSE IF ~SameOwner(superblocks, addr,
                               Add64(addr, align_up(size, page_size)))
            THEN /\ aborted' = TRUE
                 /\ last' = fin("abort")
            ELSE /\ last' = fin(sync(vma_list[o], addr,
                                     Add64(addr, align_up(size, page_size))))
                 /\ UNCHANGED aborted
    /\ nops' = nops + 1
    /\ UNCHANGED <<superblocks, free_ranges, vma_list, ptes, fr_lock, pc, loc,
                   handed>>
    /\ UNCHANGED ext

----------------------------------------------------------------------------
(* Memory accesses and the page-fault path                                 *)

AccessKinds == {"read", "write", "exec"}

(* the value a write access stores *)
WriteByte == 171

(* what the MMU lets through: an entry whose valid bit is set grants read, *)
(* its writable and executable bits grant write and exec, and a reserved   *)
(* bit faults every access                                                 *)
hw_allows(pte, kind) ==
    /\ pte.present /\ pte.valid /\ ~pte.rsvd
    /\ \/ kind = "read"
       \/ kind = "write" /\ pte.writable
       \/ kind = "exec" /\ pte.executable

(* fast_sigsegv_check: a fault on a reserved-bit entry *)
fast_sigsegv_check(pte) == pte.present /\ pte.valid /\ pte.rsvd

access_fault(v, kind) ==
    IF kind = "exec" THEN "exec" \notin v.perm
    ELSE IF kind = "write" THEN "write" \notin v.perm
    ELSE "read" \notin v.perm

(* file_vma::offset *)
offset(v, addr) == v.off + (addr - v.start)

(* a vma::fault that never takes the huge-page branch *)
vma_fault_one_page(pt, v, addr) ==
    [sig |-> "none", pt |-> populate_vma(pt, v, addr, page_size)]

(* vma::fault: a huge page where the VMA allows one, else one page *)
vma_fault(pt, v, addr) ==
    LET hp_start == align_up(v.start, huge_page_size)
        hp_end == align_down(v.end, huge_page_size)
    IN IF "small" \notin v.flags /\ hp_start <= addr /\ addr < hp_end
       THEN [sig |-> "none",
             pt |-> populate_vma(pt, v, align_down(addr, huge_page_size),
                                 huge_page_size)]
       ELSE [sig |-> "none", pt |-> populate_vma(pt, v, addr, page_size)]

(* a file_vma::fault that takes a page only if all of it lies in the file *)
file_vma_fault_whole_pages(pt, v, addr) ==
    IF offset(v, addr) + page_size > fsize(v)
    THEN [sig |-> "SIGBUS", pt |-> pt]
    ELSE [sig |-> "none", pt |-> populate_vma(pt, v, addr, page_size)]

(* file_vma::fault: SIGBUS at or beyond the file's size, else one page     *)
(* (a file VMA is always mmap_small)                                       *)
file_vma_fault(pt, v, addr) ==
    IF offset(v, addr) >= fsize(v)
    THEN [sig |-> "SIGBUS", pt |-> pt]
    ELSE [sig |-> "none", pt |-> populate_vma(pt, v, addr, page_size)]

(* vm_fault(addr) for an access of the given kind: the signal delivered    *)
(* ("abort" when vma_lock's assertion fails), the page table afterwards    *)
(* and the VMA found                                                       *)
vm_fault(sb, vl, pt, fault_addr, kind) ==
    LET addr == align_down(fault_addr, page_size)
        o == owner(sb, addr)
        v == find_intersecting_vma(vl[o], addr)
    IN IF fast_sigsegv_check(pt[addr])
       THEN [sig |-> "SIGSEGV", pt |-> pt, found |-> NoVma]
       ELSE IF o \notin Workers
       THEN [sig |-> "abort", pt |-> pt, found |-> NoVma]
       ELSE IF v = NoVma \/ access_fault(v, kind)
       THEN [sig |-> "SIGSEGV", pt |-> pt, found |-> v]
       ELSE LET f == IF v.kind # "anon" THEN file_vma_fault(pt, v, addr)
                     ELSE vma_fault(pt, v, addr)
            IN [sig |-> f.sig, pt |-> f.pt, found |-> v]

(* the access completes on the entry it finds: a read returns the byte, a  *)
(* write stores WriteByte                                                  *)
complete(pt, addr, kind) ==
    LET page == align_down(addr, page_size)
    IN [res |-> "ok", val |-> pt[page].data[addr - page],
        pt |-> IF kind = "write"
               THEN [pt EXCEPT ![page].data[addr - page] = WriteByte]
               ELSE pt]

(* one access by an application thread: it goes through the MMU; if that   *)
(* faults, vm_fault runs and, unless a signal was delivered, the access is *)
(* retried ("loop" if it would fault again for ever)                       *)
access(sb, vl, pt, addr, kind) ==
    LET page == align_down(addr, page_size)
    IN IF hw_allows(pt[page], kind)
       THEN complete(pt, addr, kind) @@ [fault |-> FALSE, found |-> NoVma]
       ELSE LET f == vm_fault(sb, vl, pt, addr, kind)
            IN IF f.sig # "none"
               THEN [res |-> f.sig, val |-> 0, pt |-> f.pt, fault |-> TRUE,
                     found |-> f.found]
               ELSE IF hw_allows(f.pt[page], kind)
               THEN complete(f.pt, addr, kind)
                       @@ [fault |-> TRUE, found |-> f.found]
               ELSE [res |-> "loop", val |-> 0, pt |-> f.pt, fault |-> TRUE,
                     found |-> f.found]

Access(c, addrs, kinds, maxops) ==
    /\ ~aborted /\ pc[c] = "idle" /\ nops < maxops
    /\ \E addr \in addrs, kind \in kinds :
         LET a == access(superblocks, vma_list, ptes, addr, kind)
         IN /\ ptes' = a.pt
            /\ aborted' = (a.res = "abort")
            /\ last' = [Done("access", c, addr, 0, a.res)
                          EXCEPT !.kind = kind, !.val = a.val,
                                 !.fault = a.fault, !.found = a.found,
                                 !.before = ptes]
    /\ nops' = nops + 1
    /\ UNCHANGED <<superblocks, free_ranges, vma_list, fr_lock, pc, loc, handed>>
    /\ UNCHANGED ext

----------------------------------------------------------------------------
(* Threads on both CPUs mapping, unmapping and protecting                  *)

MaxOpsMap == 3

MapSizes == {page_size, superblock_size, superblock_size + page_size}
MapPerms == {{"read", "write"}}
FixedAddrs == {page_size, superblock_area_base,
               superblock_area_base + 2 * page_size}
FixedSizes == {page_size, superblock_size}
UnmapAddrs == {superblock_area_base, superblock_area_base + 3 * page_size}
UnmapSizes == {page_size, superblock_size}
ProtectLens == {page_size, 2 * page_size}
ProtectPerms == {{"read"}}

MapSteps(c) ==
    \/ FixEvacuate(c)
    \/ FixAllocate(c)
    \/ MapInsertVma(c)

NextMap ==
    \E c \in Cpus :
        \/ CallMapAnon(c, MapSizes, MapPerms, {{}}, MaxOpsMap)
        \/ CallMapFixed(c, FixedAddrs, FixedSizes, MapPerms, MaxOpsMap)
        \/ Munmap(c, UnmapAddrs, UnmapSizes, MaxOpsMap)
        \/ MunmapAnon(c, UnmapAddrs, MaxOpsMap)
        \/ Mprotect(c, UnmapAddrs, ProtectLens, ProtectPerms, MaxOpsMap)
        \/ ReserveSteps(c)
        \/ MapSteps(c)

SpecMap == Init /\ [][NextMap]_vars

----------------------------------------------------------------------------
(* Properties of the registries                                            *)

AllIdle == ~aborted /\ \A c \in Cpus : pc[c] = "idle"

Bytes(start, size) == {Add64(start, d) : d \in 0 .. (size - 1)}

RealVmas(w) == {v \in vma_list[w] : v.end > v.start}

FreeBytes(w) ==
    UNION {Bytes(k, free_ranges[w][k]) : k \in DOMAIN free_ranges[w]}

VmaBytes(w) == UNION {Bytes(v.start, v.end - v.start) : v \in RealVmas(w)}

(* the address window of a shard: the superblocks it has claimed, or for   *)
(* the shared worker what lies outside the superblock area                 *)
Window(w) ==
    IF w = shared_worker
    THEN (0 .. (superblock_area_base - 1)) \cup (main_mem_area_base .. (Bit63 - 1))
    ELSE {a \in superblock_area_base .. (main_mem_area_base - 1) :
            superblocks[superblock_index(a)] = w}

Partitioned(w) ==
    /\ \A k1 \in DOMAIN free_ranges[w] : \A k2 \in DOMAIN free_ranges[w] :
         k1 # k2 => Bytes(k1, free_ranges[w][k1])
                      \cap Bytes(k2, free_ranges[w][k2]) = {}
    /\ \A v \in RealVmas(w) : \A u \in RealVmas(w) :
         v # u => RangesDisjoint(v.start, v.end, u.start, u.end)
    /\ FreeBytes(w) \cap VmaBytes(w) = {}
    /\ FreeBytes(w) \cup VmaBytes(w) = Window(w)

(* C3: whenever no operation is in flight, the intervals of each shard's   *)
(* free-range map and the ranges of its VMAs are pairwise disjoint and     *)
(* their union is exactly the shard's address window                       *)
C3_FreeAndVmasPartitionWindow ==
    AllIdle => \A w \in Workers : Partitioned(w)

(* C4: in every worker's registry the VMAs have page-aligned bounds,       *)
(* distinct start addresses and pairwise disjoint ranges                   *)
C4_VmasAlignedDistinctDisjoint ==
    \A w \in Workers :
        /\ \A v \in vma_list[w] :
             v.start % page_size = 0 /\ v.end % page_size = 0
        /\ \A v \in vma_list[w] : \A u \in vma_list[w] :
             v # u => /\ v.start # u.start
                      /\ (v.end > v.start /\ u.end > u.start)
                           => RangesDisjoint(v.start, v.end, u.start, u.end)

(* C5: every VMA in the registry of a CPU's worker lies inside the         *)
(* superblock area in superblocks whose slot holds that CPU, and every VMA *)
(* of the shared worker lies outside the superblock area                   *)
C5_VmasInsideOwnedSuperblocks ==
    \A w \in Workers : \A v \in RealVmas(w) :
        \A a \in Bytes(v.start, v.end - v.start) :
            IF w = shared_worker
            THEN a < superblock_area_base \/ a >= main_mem_area_base
            ELSE /\ a >= superblock_area_base /\ a < main_mem_area_base
                 /\ superblocks[superblock_index(a)] = w

(* C6: while a fixed map_anon over [a, a+s) is between its evacuation and  *)
(* its insertion, reserve_range hands no address of [a, a+s) to anyone;    *)
(* and when it has returned, exactly one VMA covers [a, a+s) and no free   *)
(* interval contains any of it                                             *)
C6_FixedMapReplacesAtomically ==
    /\ \A c \in Cpus :
         (~aborted /\ loc[c].op = "map_fixed"
                   /\ pc[c] \in {"fx_allocate", "ma_insert"})
           => \A h \in handed :
                h.id >= loc[c].hmark
                  => Bytes(h.start, h.size)
                       \cap Bytes(loc[c].start, loc[c].size) = {}
    /\ (~aborted /\ last.op = "map_fixed" /\ last.res = "ok"
            /\ pc[last.cpu] = "idle")
         => LET o == owner(superblocks, last.addr)
                covering == IF o \in Workers
                            THEN {v \in RealVmas(o) :
                                    Bytes(v.start, v.end - v.start)
                                      \cap Bytes(last.addr, last.size) # {}}
                            ELSE {}
            IN /\ Cardinality(covering) = 1
               /\ \A v \in covering :
                    v.start <= last.addr /\ v.end >= last.addr + last.size
               /\ \A w \in Workers :
                    FreeBytes(w) \cap Bytes(last.addr, last.size) = {}

----------------------------------------------------------------------------
(* One thread mapping and unmapping                                        *)

MaxOpsSeq == 4

SeqAddrs == {superblock_area_base, superblock_area_base + superblock_size,
             superblock_area_base + 3 * page_size}

(* the CPU the one thread runs on *)
OneCpu == {MinOf(Cpus)}

NextSeq ==
    \E c \in OneCpu :
        \/ CallMapAnon(c, MapSizes, MapPerms, {{}}, MaxOpsSeq)
        \/ Munmap(c, SeqAddrs, MapSizes, MaxOpsSeq)
        \/ ReserveSteps(c)
        \/ MapInsertVma(c)

SpecSeq == Init /\ [][NextSeq]_vars

(* the free intervals of worker w that cover all of [p, p+s) *)
CoveringIntervals(w, p, s) ==
    {k \in DOMAIN free_ranges[w] :
        k <= p /\ p + s <= k + free_ranges[w][k]}

(* C7: a non-fixed map_anon of size s returning p, followed by             *)
(* munmap(p, s), leaves every worker's VMA registry as it was before the   *)
(* map_anon, and the free map of the shard that owns p holds exactly one   *)
(* interval covering all of [p, p+s)                                       *)
C7_MapUnmapRoundTrip ==
    (last.op = "munmap" /\ last.kind = "roundtrip") =>
        /\ last.res = "ok"
        /\ vma_list = last.pre
        /\ owner(superblocks, last.addr) \in Workers
        /\ Cardinality(CoveringIntervals(owner(superblocks, last.addr),
                                         last.addr, last.size)) = 1

----------------------------------------------------------------------------
(* One thread mapping anonymous memory and a file, changing protections    *)
(* and touching memory                                                     *)

MaxOpsFault == 3

(* the mapping of the file: three pages, and a whole superblock *)
FileLen == 3 * page_size
(* an offset inside the page that holds the end of the file, past that end *)
FarOffset == FileSize + 1

FaultSizes == {page_size, superblock_size}
FaultFlags == {{}, {"populate"}}
FileLens == {FileLen, superblock_size}
FilePerms == {{"read"}}
FileFlags == {{"shared"}}
FaultProtAddrs == {superblock_area_base, superblock_area_base + 2 * page_size}
FaultProtLens == {page_size, 2 * page_size}
FaultProtPerms == {{}, {"read"}, {"write"}}
AccessAddrs == {superblock_area_base - 1, superblock_area_base,
                superblock_area_base + page_size,
                superblock_area_base + FileSize - 1,
                superblock_area_base + FileSize,
                superblock_area_base + FarOffset,
                superblock_area_base + FileLen,
                superblock_area_base + superblock_size}

NextFault ==
    \E c \in OneCpu :
        \/ CallMapAnon(c, FaultSizes, MapPerms, FaultFlags, MaxOpsFault)
        \/ CallMapFile(c, FileLens, FilePerms, FileFlags, MaxOpsFault)
        \/ Mprotect(c, FaultProtAddrs, FaultProtLens, FaultProtPerms, MaxOpsFault)
        \/ Access(c, AccessAddrs, AccessKinds, MaxOpsFault)
        \/ ReserveSteps(c)
        \/ MapInsertVma(c)
        \/ MapPopulate(c)

SpecFault == Init /\ [][NextFault]_vars

----------------------------------------------------------------------------
(* Properties of the fault path                                            *)

(* the VMAs, in any registry, that contain the page *)
CoveringVmas(page) ==
    {v \in UNION {RealVmas(w) : w \in Workers} :
        v.start <= page /\ page < v.end}

(* the last call was a memory access that raised a page fault *)
Faulted == last.op = "access" /\ last.fault

(* C8: vm_fault delivers SIGSEGV and populates nothing when no VMA holds   *)
(* the page-aligned fault address or the VMA that holds it lacks the       *)
(* permission for the kind of access; otherwise it hands the fault to the  *)
(* VMA and delivers no SIGSEGV                                             *)
C8_FaultSigsegvIffNoVmaOrNoPerm ==
    Faulted =>
        LET page == align_down(last.addr, page_size)
            denied == \A v \in CoveringVmas(page) : access_fault(v, last.kind)
        IN IF denied
           THEN last.res = "SIGSEGV" /\ ptes = last.before
           ELSE last.res # "SIGSEGV" /\ last.found \in CoveringVmas(page)

(* the last call was an access that faulted in a file VMA whose perm       *)
(* allows it                                                               *)
FileFaulted ==
    /\ Faulted /\ last.found # NoVma /\ last.found.kind = "file"
    /\ ~access_fault(last.found, last.kind)

(* C9: a fault in a file VMA delivers SIGBUS and installs no page exactly  *)
(* when the file offset of the page-aligned fault address is at or beyond  *)
(* the file's size; otherwise the page is installed, and the access reads  *)
(* the file's byte below the file's size and 0 in the rest of the page     *)
C9_FileFaultSigbusByPage ==
    FileFaulted =>
        LET v == last.found
            page == align_down(last.addr, page_size)
        IN IF offset(v, page) >= FileSize
           THEN last.res = "SIGBUS" /\ ptes = last.before
           ELSE /\ last.res = "ok"
                /\ ptes[page].present
                /\ last.val = IF offset(v, last.addr) < FileSize
                              THEN FileByte(offset(v, last.addr)) ELSE 0

(* a read, through a fault, of a byte past the end of the file in the page *)
(* that holds that end: it returns 0                                       *)
C9_Witness ==
    /\ FileFaulted /\ last.kind = "read"
    /\ last.found.end - last.found.start = FileLen
    /\ last.addr = last.found.start + FarOffset
    /\ last.res = "ok" /\ last.val = 0

(* C9 as stated: with the file mapped over FileLen bytes at p, p[FileSize  *)
(* - 1] comes from the file, p[FileSize] reads 0 and p[FarOffset] delivers *)
(* SIGBUS                                                                  *)
C9_FarOffsetSigbus ==
    (FileFaulted /\ last.kind = "read"
       /\ last.found.end - last.found.start = FileLen) =>
        LET p == last.found.start
        IN /\ last.addr = p + FileSize - 1 =>
                last.res = "ok" /\ last.val = FileByte(FileSize - 1)
           /\ last.addr = p + FileSize => last.res = "ok" /\ last.val = 0
           /\ last.addr = p + FarOffset =>
                last.res = "SIGBUS" /\ ptes = last.before

(* the outcome of an access of kind k to the page, in the current state *)
Outcome(page, k) == access(superblocks, vma_list, ptes, page, k).res

(* a successful mprotect has just returned, and no call has begun since *)
Protected == last.op = "mprotect" /\ last.res = "ok" /\ AllIdle

(* C10: after a successful mprotect(a, len, perm), an access of kind k to  *)
(* a page of [a, a+len) ends in SIGSEGV exactly when k is not in perm,     *)
(* except that a read of a populated page is allowed whenever perm is not  *)
(* empty                                                                   *)
C10_ProtectDecidesAccess ==
    Protected =>
        \A page \in RangePages(last.addr, last.size), k \in AccessKinds :
            Outcome(page, k) = "SIGSEGV" <=>
                /\ k \notin last.perm
                /\ ~(k = "read" /\ last.perm # {} /\ ptes[page].present)

(* the last call repeated the mprotect before it, argument for argument,   *)
(* with no call in between, and has returned with no later call begun      *)
Repeated == last.op = "mprotect" /\ last.kind = "repeat" /\ AllIdle

(* C11: an mprotect(a, len, perm) called a second time with the same       *)
(* arguments, with nothing in between, changes nothing: the registries and *)
(* the page table are as before it, it writes no entry and flushes no TLB  *)
C11_RepeatedMprotectIsNoOp ==
    Repeated =>
        /\ vma_list = last.pre
        /\ ptes = last.before
        /\ last.wr = {}
        /\ ~last.flush

(* a repeated mprotect that succeeded over a populated page of a VMA the   *)
(* first call had to split off                                             *)
C11_Witness ==
    /\ Repeated /\ last.res = "ok" /\ ~aborted
    /\ \E page \in RangePages(last.addr, last.size) : ptes[page].present
    /\ \E w \in Workers :
         \E v \in RealVmas(w), u \in RealVmas(w) :
            /\ v.start = last.addr /\ v.perm = last.perm
            /\ u.start = v.end /\ u.perm # last.perm

----------------------------------------------------------------------------
(* One thread mapping anonymous memory and an shm_file, touching,          *)
(* unmapping and advising pages                                            *)

MaxOpsPages == 3
PagesSizes == {page_size, superblock_size}
PagesFlags == {{}, {"populate"}, {"populate", "small"}}
ShmFlags == {{"shared"}, {"shared", "populate"}}
PagesAddrs == {superblock_area_base, superblock_area_base + page_size}
PagesLens == {page_size, superblock_size}

NextPages ==
    \E c \in OneCpu :
        \/ CallMapAnon(c, PagesSizes, MapPerms, PagesFlags, MaxOpsPages)
        \/ CallMapShm(c, PagesSizes, MapPerms, ShmFlags, MaxOpsPages)
        \/ Munmap(c, PagesAddrs, PagesLens, MaxOpsPages)
        \/ Madvise(c, PagesAddrs, PagesLens, MaxOpsPages)
        \/ Access(c, PagesAddrs, AccessKinds, MaxOpsPages)
        \/ ReserveSteps(c)
        \/ MapInsertVma(c)
        \/ MapPopulate(c)

SpecPages == Init /\ [][NextPages]_vars

----------------------------------------------------------------------------
(* Properties of the page-table walks                                      *)

(* the last call ran the unpopulate walk over its whole range *)
Unpopulated ==
    /\ last.res = "ok" /\ AllIdle
    /\ last.op = "munmap" \/ (last.op = "madvise" /\ last.kind = "dontneed")

(* C12: after the unpopulate walk of munmap or of madvise(dontneed) over a *)
(* range, no leaf entry of the range is present, whichever provider backs  *)
(* the VMA                                                                 *)
C12_UnpopulateLeavesNoLeaf ==
    Unpopulated =>
        \A p \in RangePages(last.addr, last.size) : ~ptes[p].present

(* the events of the unpopulate walks of the last munmap or munmap_anon *)
Walked == last.op \in {"munmap", "munmap_anon"} /\ last.ev # <<>>

(* C13: in an unpopulate walk a backing page is freed only after a TLB     *)
(* flush that follows the clearing of its entry, and a TLB flush follows   *)
(* the last clearing before operate_range returns                          *)
C13_FreedOnlyAfterFlush ==
    Walked =>
        LET ev == last.ev
        IN /\ \A k \in 1 .. Len(ev) :
                ev[k].e = "free" =>
                    \E i \in 1 .. k, j \in 1 .. k :
                        /\ i < j /\ j < k
                        /\ ev[i] = [e |-> "clear", page |-> ev[k].page]
                        /\ ev[j].e = "flush"
           /\ \A i \in 1 .. Len(ev) :
                ev[i].e = "clear" =>
                    \E j \in 1 .. Len(ev) : i < j /\ ev[j].e = "flush"

(* a walk that filled its tlb_gather, flushed from push and went on: more  *)
(* than max_pages entries were cleared, and a page was freed before the    *)
(* last entry was cleared                                                  *)
C13_Witness ==
    /\ Walked /\ last.res = "ok"
    /\ Cardinality({i \in 1 .. Len(last.ev) : last.ev[i].e = "clear"}) > max_pages
    /\ \E k \in 1 .. Len(last.ev), i \in 1 .. Len(last.ev) :
         k < i /\ last.ev[k].e = "free" /\ last.ev[i].e = "clear"

(* the last call was an access whose fault the VMA found took and served *)
Served ==
    /\ Faulted /\ last.res = "ok" /\ last.found # NoVma
    /\ ~access_fault(last.found, last.kind)

(* the fault address lies in the huge-page interior of an anonymous VMA    *)
(* that is not mmap_small                                                  *)
HugeFault ==
    LET v == last.found
    IN /\ v.kind = "anon" /\ "small" \notin v.flags
       /\ align_up(v.start, huge_page_size) <= last.addr
       /\ last.addr < align_down(v.end, huge_page_size)

(* the pages that the fault mapped *)
Populated == {p \in Pages : ptes[p].present /\ ~last.before[p].present}

----------------------------------------------------------------------------
(* One thread calling munmap, mprotect, msync and madvise on ranges that   *)
(* are mapped, partly mapped and not mapped                                *)

MaxOpsCalls == 3
CallsSizes == {page_size, superblock_size}
CallsAddrs == {superblock_area_base, superblock_area_base + page_size}
CallsLens == {page_size, 2 * page_size}
CallsPerms == {{"read"}}

NextCalls ==
    \E c \in OneCpu :
        \/ CallMapAnon(c, CallsSizes, MapPerms, {{}}, MaxOpsCalls)
        \/ Munmap(c, CallsAddrs, CallsLens, MaxOpsCalls)
        \/ Mprotect(c, CallsAddrs, CallsLens, CallsPerms, MaxOpsCalls)
        \/ Msync(c, CallsAddrs, CallsLens, MaxOpsCalls)
        \/ Madvise(c, CallsAddrs, CallsLens, MaxOpsCalls)
        \/ ReserveSteps(c)
        \/ MapInsertVma(c)

SpecCalls == Init /\ [][NextCalls]_vars

(* the last call was one of the four that need their whole range mapped,   *)
(* and some byte of its range was in no VMA                                *)
RangeCalls == {"munmap", "mprotect", "msync", "madvise"}

NotAllMapped ==
    /\ last.op \in RangeCalls /\ \A c \in Cpus : pc[c] = "idle"
    /\ \E b \in last.addr .. (last.addr + last.size - 1) :
         \A w \in Workers : \A v \in last.was.vl[w] : ~(v.start <= b /\ b < v.end)

(* C15: a munmap, mprotect, msync or madvise over a range with a byte that *)
(* no VMA covers returns EINVAL (munmap) or ENOMEM (the others) and leaves *)
(* the registries, the free-range maps and the page table as they were     *)
C15_UnmappedRangeRefused ==
    NotAllMapped =>
        /\ last.res = IF last.op = "munmap" THEN "EINVAL" ELSE "ENOMEM"
        /\ vma_list = last.was.vl
        /\ free_ranges = last.was.fr
        /\ ptes = last.was.pt

(* C17: a worker's free-range map is changed only under that worker's      *)
(* free_ranges_mutex: while a thread holds the mutex, no step of another   *)
(* thread changes the map                                                  *)
C17_FreeRangesUnderLock ==
    [][\A w \in Workers :
         free_ranges'[w] # free_ranges[w] /\ fr_lock[w] # NoThread =>
             IF fr_lock[w] \in Cpus THEN pc'[fr_lock[w]] # pc[fr_lock[w]]
             ELSE FALSE]_vars

----------------------------------------------------------------------------
(* One thread mapping at fixed addresses at and next to the ends of the    *)
(* address space, and unmapping there                                      *)

MaxOpsEdge == 3
EdgeAddrs == {lower_vma_limit, page_size, upper_vma_limit - page_size,
              upper_vma_limit}
EdgeSizes == {page_size, 2 * page_size}

NextEdge ==
    \E c \in OneCpu :
        \/ CallMapFixed(c, EdgeAddrs, EdgeSizes, MapPerms, MaxOpsEdge)
        \/ Munmap(c, EdgeAddrs, EdgeSizes, MaxOpsEdge)
        \/ MunmapAnon(c, EdgeAddrs, MaxOpsEdge)
        \/ MapSteps(c)

SpecEdge == Init /\ [][NextEdge]_vars

(* C19: every worker's registry holds the two zero-size markers, at        *)
(* lower_vma_limit and at upper_vma_limit, at all times                    *)
C19_SentinelsStay ==
    \A w \in Workers :
        /\ Sentinel(lower_vma_limit) \in vma_list[w]
        /\ Sentinel(upper_vma_limit) \in vma_list[w]
----------------------------------------------------------------------------
(* Intermediate tables and RCU: vpopulate, vdepopulate and vcleanup on the *)
(* high region, with unpopulate's and cleanup_intermediate_pages'          *)
(* intermediate_page_post taken one statement per step, against            *)
(* virt_visit_pte_rcu on another CPU                                       *)

MaxOpsRcu == 4
HighSizes == {page_size, huge_page_size}
perm_rwx == {"read", "write", "exec"}

(* the range as vpopulate and vdepopulate hand it to operate_range *)
high_vma(addr, size) == anon_vma(addr, Add64(addr, size), perm_rwx, {})

(* the level-0 entries of region h after unpopulate::page has run on each  *)
(* of them, the level-1 entry still pointing to the table                  *)
unpopulate_level0(pt, h) ==
    [p \in DOMAIN pt |->
        IF p \in RegionPages(h) THEN [NoPte EXCEPT !.table = TRUE] ELSE pt[p]]

(* ptep.write(make_empty_pte<1>()) on the level-1 entry of region h *)
write_empty_pmd(pt, h) ==
    [p \in DOMAIN pt |->
        IF p \in RegionPages(h)
        THEN [pt[p] EXCEPT !.table = FALSE, !.large = FALSE]
        ELSE pt[p]]

(* the statements of the two intermediate_page_post hooks, in source order *)
unpopulate_post == <<"rcu_defer", "write">>
cleanup_post == <<"write", "rcu_defer">>

(* cleanup_intermediate_pages::page counts the non-empty level-0 entries *)
live_ptes(pt, h) == Cardinality({p \in RegionPages(h) : pt[p].present})

(* the walk calls intermediate_page_post on region h: the whole region is  *)
(* covered and its level-1 entry points to a table                         *)
descends(pt, h, addr, size) ==
    whole_region(h, addr, size, 2) /\ pt[h].table

(* allocate_intermediate_level, from the walk or from split_large_page,    *)
(* links a new table page to the high region's level-1 entry               *)
track_table(r, before, after) ==
    IF after[Bit63].table /\ ~before[Bit63].table
    THEN [r EXCEPT !.allocated = @ + 1, !.linked = r.allocated + 1]
    ELSE r

Vpopulate(c, addrs, sizes, maxops) ==
    /\ ~aborted /\ pc[c] = "idle" /\ nops < maxops
    /\ page_table_high_mutex = NoThread
    /\ \E addr \in addrs, size \in sizes :
        LET pt == populate(ptes, high_vma(addr, size), addr, size)
        IN /\ ~in_vma_range(addr)
           /\ ptes' = pt
           /\ rcu' = track_table(rcu, ptes, pt)
           /\ last' = Done("vpopulate", c, addr, size, "ok")
    /\ nops' = nops + 1
    /\ UNCHANGED <<superblocks, free_ranges, vma_list, fr_lock, pc, loc, aborted,
                   handed, vma_list_mutex, page_table_high_mutex, frames, vma_range_set>>

(* vdepopulate and vcleanup up to the first statement of the hook, or to   *)
(* their end when the walk does not call it                                *)
Vdepopulate(c, addrs, sizes, maxops) ==
    /\ ~aborted /\ pc[c] = "idle" /\ nops < maxops
    /\ page_table_high_mutex = NoThread
    /\ \E addr \in addrs, size \in sizes :
        LET h == HugeBase(addr)
        IN /\ ~in_vma_range(addr)
           /\ IF descends(ptes, h, addr, size)
              THEN /\ ptes' = unpopulate_level0(ptes, h)
                   /\ pc' = [pc EXCEPT ![c] = "post"]
                   /\ loc' = [loc EXCEPT ![c].op = "vdepopulate", ![c].start = h,
                                         ![c].todo = unpopulate_post,
                                         ![c].table = rcu.linked]
                   /\ page_table_high_mutex' = c
                   /\ UNCHANGED <<last, rcu>>
              ELSE /\ ptes' = unpopulate(ptes, high_vma(addr, size), addr, size)
                   /\ rcu' = track_table(rcu, ptes, ptes')
                   /\ last' = Done("vdepopulate", c, addr, size, "ok")
                   /\ UNCHANGED <<pc, loc, page_table_high_mutex>>
    /\ nops' = nops + 1
    /\ UNCHANGED <<superblocks, free_ranges, vma_list, fr_lock, aborted, handed,
                   vma_list_mutex, frames, vma_range_set>>

Vcleanup(c, addrs, sizes, maxops) ==
    /\ ~aborted /\ pc[c] = "idle" /\ nops < maxops
    /\ page_table_high_mutex = NoThread
    /\ \E addr \in addrs, size \in sizes :
        LET h == HugeBase(addr)
        IN /\ ~in_vma_range(addr)
           /\ IF descends(ptes, h, addr, size) /\ live_ptes(ptes, h) = 0
              THEN /\ pc' = [pc EXCEPT ![c] = "post"]
                   /\ loc' = [loc EXCEPT ![c].op = "vcleanup", ![c].start = h,
                                         ![c].todo = cleanup_post,
                                         ![c].table = rcu.linked]
                   /\ page_table_high_mutex' = c
                   /\ UNCHANGED last
              ELSE /\ last' = Done("vcleanup", c, addr, size, "ok")
                   /\ UNCHANGED <<pc, loc, page_table_high_mutex>>
    /\ nops' = nops + 1
    /\ UNCHANGED <<superblocks, free_ranges, vma_list, ptes, fr_lock, aborted,
                   handed, vma_list_mutex, rcu, frames, vma_range_set>>

(* the hook is over: the walk ends and the mutex is dropped *)
PostNext(c) ==
    IF Len(loc[c].todo) = 1
    THEN /\ pc' = [pc EXCEPT ![c] = "idle"]
         /\ loc' = [loc EXCEPT ![c] = IdleLoc]
         /\ page_table_high_mutex' = NoThread
         /\ last' = Done(loc[c].op, c, loc[c].start, huge_page_size, "ok")
    ELSE /\ loc' = [loc EXCEPT ![c].todo = Tail(@)]
         /\ UNCHANGED <<pc, page_table_high_mutex, last>>

(* osv::rcu_defer(free_page, table): the callback runs once every read     *)
(* section that is open now has been left                                  *)
PostRcuDefer(c) ==
    /\ ~aborted /\ pc[c] = "post"
    /\ IF loc[c].todo # <<>> THEN Head(loc[c].todo) = "rcu_defer" ELSE FALSE
    /\ rcu' = [rcu EXCEPT !.deferred = @ \cup {[table |-> loc[c].table,
                                                wait |-> rcu.reading]}]
    /\ PostNext(c)
    /\ UNCHANGED <<superblocks, free_ranges, vma_list, ptes, fr_lock, aborted,
                   handed, nops, vma_list_mutex, frames, vma_range_set>>

PostWrite(c) ==
    /\ ~aborted /\ pc[c] = "post"
    /\ IF loc[c].todo # <<>> THEN Head(loc[c].todo) = "write" ELSE FALSE
    /\ ptes' = write_empty_pmd(ptes, loc[c].start)
    /\ rcu' = [rcu EXCEPT !.linked = 0]
    /\ PostNext(c)
    /\ UNCHANGED <<superblocks, free_ranges, vma_list, fr_lock, aborted, handed,
                   nops, vma_list_mutex, frames, vma_range_set>>

(* virt_visit_pte_rcu(virt): rcu_read_lock, the level-1 entry, the level-0 *)
(* entry of the table it points to, rcu_read_unlock                        *)
RcuReadLock(c, addrs, maxops) ==
    /\ ~aborted /\ pc[c] = "idle" /\ nops < maxops
    /\ \E virt \in addrs :
        loc' = [loc EXCEPT ![c].op = "virt_visit_pte_rcu",
                           ![c].start = align_down(virt, page_size)]
    /\ pc' = [pc EXCEPT ![c] = "rd_parent"]
    /\ rcu' = [rcu EXCEPT !.reading = @ \cup {c}]
    /\ nops' = nops + 1
    /\ UNCHANGED <<superblocks, free_ranges, vma_list, ptes, fr_lock, aborted,
                   handed, last, vma_list_mutex, page_table_high_mutex, frames, vma_range_set>>

RcuReadParent(c) ==
    /\ ~aborted /\ pc[c] = "rd_parent"
    /\ IF ptes[HugeBase(loc[c].start)].table
       THEN /\ pc' = [pc EXCEPT ![c] = "rd_leaf"]
            /\ loc' = [loc EXCEPT ![c].table = rcu.linked]
       ELSE /\ pc' = [pc EXCEPT ![c] = "rd_unlock"]
            /\ UNCHANGED loc
    /\ UNCHANGED <<superblocks, free_ranges, vma_list, ptes, fr_lock, aborted,
                   handed, last, nops, vma_list_mutex, page_table_high_mutex, rcu, frames, vma_range_set>>

RcuReadLeaf(c) ==
    /\ ~aborted /\ pc[c] = "rd_leaf"
    /\ pc' = [pc EXCEPT ![c] = "rd_unlock"]
    /\ last' = [Done("virt_visit_pte_rcu", c, loc[c].start, page_size,
                     IF loc[c].table \in rcu.freed THEN "freed" ELSE "ok")
                  EXCEPT !.val = loc[c].table]
    /\ UNCHANGED <<superblocks, free_ranges, vma_list, ptes, fr_lock, loc, aborted,
                   handed, nops, vma_list_mutex, page_table_high_mutex, rcu, frames, vma_range_set>>

RcuReadUnlock(c) ==
    /\ ~aborted /\ pc[c] = "rd_unlock"
    /\ pc' = [pc EXCEPT ![c] = "idle"]
    /\ loc' = [loc EXCEPT ![c] = IdleLoc]
    /\ rcu' = [rcu EXCEPT !.reading = @ \ {c},
                          !.deferred = {[cb EXCEPT !.wait = @ \ {c}] : cb \in @}]
    /\ UNCHANGED <<superblocks, free_ranges, vma_list, ptes, fr_lock, aborted,
                   handed, last, nops, vma_list_mutex, page_table_high_mutex, frames, vma_range_set>>

(* the grace period of a callback is over: free_page(table) *)
RcuCallback ==
    /\ ~aborted
    /\ \E cb \in rcu.deferred :
        /\ cb.wait = {}
        /\ rcu' = [rcu EXCEPT !.deferred = @ \ {cb}, !.freed = @ \cup {cb.table}]
    /\ UNCHANGED <<superblocks, free_ranges, vma_list, ptes, fr_lock, pc, loc,
                   aborted, handed, last, nops, vma_list_mutex,
                   page_table_high_mutex, frames, vma_range_set>>

NextRcu ==
    \/ \E c \in Cpus :
        \/ Vpopulate(c, HighPages, HighSizes, MaxOpsRcu)
        \/ Vdepopulate(c, HighPages, HighSizes, MaxOpsRcu)
        \/ Vcleanup(c, HighPages, HighSizes, MaxOpsRcu)
        \/ PostRcuDefer(c)
        \/ PostWrite(c)
        \/ RcuReadLock(c, HighPages, MaxOpsRcu)
        \/ RcuReadParent(c)
        \/ RcuReadLeaf(c)
        \/ RcuReadUnlock(c)
    \/ RcuCallback

SpecRcu == Init /\ [][NextRcu]_vars

(* a read section that holds table t, or that is about to read a level-1   *)
(* entry which still points to t                                           *)
Reaches(c, t) ==
    /\ c \in rcu.reading
    /\ \/ pc[c] = "rd_leaf" /\ loc[c].table = t
       \/ pc[c] = "rd_parent" /\ rcu.linked = t

(* C14: a table that unpopulate or cleanup_intermediate_pages has unlinked *)
(* is not freed while a read section of virt_visit_pte_rcu can still reach *)
(* it or still holds it                                                    *)
C14_NoFreeUnderReader ==
    \A t \in rcu.freed : \A c \in Cpus : ~Reaches(c, t)
----------------------------------------------------------------------------
(* A page fault taken one step at a time: vm_fault, the walk of populate,  *)
(* and the provider's alloc_page, fill and write_pte, so that two threads  *)
(* can fault on the same page at once                                      *)

MaxOpsRace == 3
MaxMapsRace == 1
RaceSizes == {page_size, superblock_size}
RaceFlags == {{}, {"uninitialized"}}
RaceAddrs == {superblock_area_base, superblock_area_base + page_size + 1}
RaceKinds == {"read", "write"}

(* what alloc_page may hand out: a page of zeroes or one that still holds  *)
(* what its last user left in it                                           *)
StaleByte == 85
StalePage == [b \in 0 .. (page_size - 1) |-> StaleByte]
AllocContents == {ZeroPage, StalePage}

(* a fill that leaves the page as alloc_page returned it *)
fill_nothing(flags, mem) == mem

(* page_allocator::fill of the VMA's provider: the initialized provider    *)
(* memsets the whole allocation, the uninitialized one returns it as it is *)
fill(flags, mem) ==
    IF "uninitialized" \in flags THEN mem
    ELSE [p \in DOMAIN mem |-> ZeroPage]

(* populate::skip *)
skip(pte, write) ==
    IF ~pte.present /\ ~pte.large THEN FALSE ELSE ~write \/ pte.writable

(* the pages an allocation for the entry at this level backs *)
EntryPages(level, p) == IF level = 1 THEN RegionPages(HugeBase(p)) ELSE {p}

(* the pages of a range in ascending order *)
RECURSIVE page_seq(_)
page_seq(S) ==
    IF S = {} THEN <<>> ELSE <<MinOf(S)>> \o page_seq(S \ {MinOf(S)})

(* memory::alloc_page, alloc_huge_page: a page fresh from the allocator,   *)
(* given to thread c for the entry of page e at this level                 *)
NewFrame(c, e, level) ==
    [cpu |-> c, page |-> e, level |-> level, installed |-> FALSE, freed |-> 0,
     counted |-> 0]

(* the access has its answer: a value, or a signal *)
TouchDone(c, res, val, pt, found) ==
    /\ ptes' = pt
    /\ aborted' = (res = "abort")
    /\ last' = [Done("access", c, loc[c].start, 0, res)
                  EXCEPT !.kind = loc[c].kind, !.val = val, !.found = found,
                         !.fault = loc[c].fsize # 0]
    /\ pc' = [pc EXCEPT ![c] = "idle"]
    /\ loc' = [loc EXCEPT ![c] = IdleLoc]

Touch(c, addrs, kinds, maxops) ==
    /\ ~aborted /\ pc[c] = "idle" /\ nops < maxops
    /\ \E addr \in addrs, kind \in kinds :
        loc' = [loc EXCEPT ![c].op = "access", ![c].start = addr,
                           ![c].kind = kind]
    /\ pc' = [pc EXCEPT ![c] = "touch"]
    /\ nops' = nops + 1
    /\ UNCHANGED <<superblocks, free_ranges, vma_list, ptes, fr_lock, aborted,
                   handed, last>>
    /\ UNCHANGED ext

(* the access goes through the MMU; if that faults, vm_fault up to the     *)
(* call of populate_vma for the range vma::fault chooses                   *)
TouchAccess(c) ==
    /\ ~aborted /\ pc[c] = "touch"
    /\ LET addr == loc[c].start
           page == align_down(addr, page_size)
           o == owner(superblocks, page)
           v == IF o \in Workers THEN find_intersecting_vma(vma_list[o], page)
                ELSE NoVma
           hp_start == align_up(v.start, huge_page_size)
           hp_end == align_down(v.end, huge_page_size)
           huge == "small" \notin v.flags /\ hp_start <= page /\ page < hp_end
       IN IF hw_allows(ptes[page], loc[c].kind)
          THEN LET a == complete(ptes, addr, loc[c].kind)
               IN TouchDone(c, a.res, a.val, a.pt, NoVma)
          ELSE IF fast_sigsegv_check(ptes[page])
          THEN TouchDone(c, "SIGSEGV", 0, ptes, NoVma)
          ELSE IF o \notin Workers
          THEN TouchDone(c, "abort", 0, ptes, NoVma)
          ELSE IF v = NoVma \/ access_fault(v, loc[c].kind)
          THEN TouchDone(c, "SIGSEGV", 0, ptes, v)
          ELSE /\ pc' = [pc EXCEPT ![c] = "pf_pmd"]
               /\ loc' = [loc EXCEPT
                     ![c].perm = v.perm, ![c].flags = v.flags,
                     ![c].fstart = IF huge THEN align_down(page, huge_page_size)
                                   ELSE page,
                     ![c].fsize = IF huge THEN huge_page_size ELSE page_size]
               /\ UNCHANGED <<ptes, aborted, last>>
    /\ UNCHANGED <<superblocks, free_ranges, vma_list, fr_lock, handed, nops>>
    /\ UNCHANGED ext

(* the entries of region h left to the level-0 walk, with the table there *)
PfDescend(c, h) ==
    /\ ptes' = [p \in DOMAIN ptes |->
                  IF p \in RegionPages(h) THEN split_slot(ptes[p]) ELSE ptes[p]]
    /\ loc' = [loc EXCEPT ![c].level = 0,
                          ![c].todo = page_seq(RangePages(loc[c].fstart,
                                                          loc[c].fsize))]

(* map_level at level 1: the whole region goes to page() when the entry is *)
(* empty or large and two page sizes are in use; else the walk goes down,  *)
(* through a table it allocates or a large page it splits                  *)
PfPmd(c) ==
    /\ ~aborted /\ pc[c] = "pf_pmd"
    /\ LET h == HugeBase(loc[c].fstart)
           nr == IF "small" \in loc[c].flags THEN 1 ELSE 2
       IN IF whole_region(h, loc[c].fstart, loc[c].fsize, nr) /\ ~ptes[h].table
          THEN /\ loc' = [loc EXCEPT ![c].level = 1, ![c].todo = <<h>>]
               /\ UNCHANGED ptes
          ELSE PfDescend(c, h)
    /\ pc' = [pc EXCEPT ![c] = "pf_page"]
    /\ UNCHANGED <<superblocks, free_ranges, vma_list, fr_lock, aborted, handed,
                   last, nops>>
    /\ UNCHANGED ext

(* the walk moves to its next entry; after the last one vm_fault returns   *)
(* and the access is tried again                                           *)
PfAdvance(c) ==
    IF Len(loc[c].todo) = 1
    THEN /\ pc' = [pc EXCEPT ![c] = "touch"]
         /\ loc' = [loc EXCEPT ![c].todo = <<>>, ![c].mem = <<>>,
                               ![c].frame = 0]
    ELSE /\ pc' = [pc EXCEPT ![c] = "pf_page"]
         /\ loc' = [loc EXCEPT ![c].todo = Tail(@), ![c].mem = <<>>,
                               ![c].frame = 0]

(* populate::page up to the call of the provider's map *)
PfPage(c) ==
    /\ ~aborted /\ pc[c] = "pf_page"
    /\ IF loc[c].todo = <<>> THEN FALSE
       ELSE IF skip(ptes[Head(loc[c].todo)], loc[c].kind = "write")
       THEN PfAdvance(c)
       ELSE /\ pc' = [pc EXCEPT ![c] = "pf_alloc"]
            /\ UNCHANGED loc
    /\ UNCHANGED <<superblocks, free_ranges, vma_list, ptes, fr_lock, aborted,
                   handed, last, nops>>
    /\ UNCHANGED ext

(* memory::alloc_page or alloc_huge_page: any content; a huge page may not *)
(* be had, and then page() fails and the walk goes down to 4 KiB pages     *)
PfAlloc(c) ==
    /\ ~aborted /\ pc[c] = "pf_alloc"
    /\ IF loc[c].todo = <<>> THEN FALSE
       ELSE LET e == Head(loc[c].todo)
            IN \E got \in BOOLEAN :
                IF got \/ loc[c].level = 0
                THEN /\ \E m \in [EntryPages(loc[c].level, e) -> AllocContents] :
                          loc' = [loc EXCEPT ![c].mem = m, ![c].raw = m,
                                             ![c].frame = Len(frames) + 1]
                     /\ frames' = Append(frames, NewFrame(c, e, loc[c].level))
                     /\ pc' = [pc EXCEPT ![c] = "pf_fill"]
                     /\ UNCHANGED ptes
                ELSE /\ PfDescend(c, e)
                     /\ pc' = [pc EXCEPT ![c] = "pf_page"]
                     /\ UNCHANGED frames
    /\ UNCHANGED <<superblocks, free_ranges, vma_list, fr_lock, aborted, handed,
                   last, nops>>
    /\ UNCHANGED <<vma_list_mutex, page_table_high_mutex, rcu, vma_range_set>>

PfFill(c) ==
    /\ ~aborted /\ pc[c] = "pf_fill"
    /\ loc' = [loc EXCEPT ![c].mem = fill(loc[c].flags, @)]
    /\ pc' = [pc EXCEPT ![c] = "pf_set"]
    /\ UNCHANGED <<superblocks, free_ranges, vma_list, ptes, fr_lock, aborted,
                   handed, last, nops>>
    /\ UNCHANGED ext

(* a set_pte that writes the entry whatever it holds *)
set_pte_blind(pt, level, e, perm, mem, frame) ==
    [ok |-> TRUE,
     pt |-> [p \in DOMAIN pt |->
               IF p \in EntryPages(level, e)
               THEN [make_leaf_pte(perm, mem[p])
                       EXCEPT !.large = (level = 1), !.table = (level = 0),
                              !.frame = frame]
               ELSE pt[p]]]

(* uninitialized_anonymous_page_provider::set_pte: write_pte swaps the     *)
(* leaf in if the entry is still empty, and its answer is set_pte's        *)
set_pte(pt, level, e, perm, mem, frame) ==
    LET empty == IF level = 1 THEN pmd_empty(pt, e) ELSE ~pt[e].present
    IN IF empty THEN set_pte_blind(pt, level, e, perm, mem, frame)
       ELSE [ok |-> FALSE, pt |-> pt]

(* the rest of map and of populate::page: a page that set_pte did not put  *)
(* in the entry is freed; one that it did is accounted for                 *)
PfSetPte(c) ==
    /\ ~aborted /\ pc[c] = "pf_set"
    /\ IF loc[c].todo = <<>> THEN FALSE
       ELSE LET e == Head(loc[c].todo)
                r == set_pte(ptes, loc[c].level, e, loc[c].perm, loc[c].mem,
                             loc[c].frame)
                size == IF loc[c].level = 1 THEN huge_page_size ELSE page_size
            IN /\ ptes' = r.pt
               /\ frames' = [frames EXCEPT ![loc[c].frame] =
                               IF r.ok
                               THEN [@ EXCEPT !.installed = TRUE,
                                              !.counted = @ + size]
                               ELSE [@ EXCEPT !.freed = @ + 1]]
               /\ PfAdvance(c)
    /\ UNCHANGED <<superblocks, free_ranges, vma_list, fr_lock, aborted, handed,
                   last, nops>>
    /\ UNCHANGED <<vma_list_mutex, page_table_high_mutex, rcu, vma_range_set>>

FaultSteps(c) ==
    \/ TouchAccess(c)
    \/ PfPmd(c)
    \/ PfPage(c)
    \/ PfAlloc(c)
    \/ PfFill(c)
    \/ PfSetPte(c)

(* the steps of reserve_range that a CPU's first reservation can take: no *)
(* free range fits, and one superblock is claimed                          *)
FirstReserveSteps(c) ==
    \/ ReserveNoFit(c)
    \/ AllocScan(c)
    \/ AllocCas(c)
    \/ ReleaseOutOfBounds(c)
    \/ ReleaseDone(c)
    \/ ReserveFinish(c)

(* one thread maps first, then every thread touches *)
NextRace ==
    \/ \E c \in OneCpu :
        \/ CallMapAnon(c, RaceSizes, MapPerms, RaceFlags, MaxMapsRace)
        \/ FirstReserveSteps(c)
        \/ MapInsertVma(c)
    \/ \E c \in Cpus :
        \/ Touch(c, RaceAddrs, RaceKinds, MaxOpsRace)
        \/ FaultSteps(c)

SpecRace == Init /\ [][NextRace]_vars

(* the pages of anonymous VMAs whose provider is the initialized one *)
InitializedPages ==
    {p \in Pages : \E v \in CoveringVmas(p) :
                      v.kind = "anon" /\ "uninitialized" \notin v.flags}

(* C16: every byte of a mapped page of an anonymous VMA without the        *)
(* uninitialized flag is zero unless a write through the mapping stored    *)
(* it, from the moment the entry is in the page table; and a read of such  *)
(* a page returns nothing else                                             *)
C16_AnonReadsZero ==
    /\ \A p \in InitializedPages :
          ptes[p].present =>
              \A b \in 0 .. (page_size - 1) : ptes[p].data[b] \in {0, WriteByte}
    /\ (last.op = "access" /\ last.res = "ok" /\ last.kind = "read"
          /\ align_down(last.addr, page_size) \in InitializedPages)
       => last.val \in {0, WriteByte}

(* a thread is about to lose write_pte on an entry another thread's fault  *)
(* filled first, having itself been given a stale page that it zeroed      *)
C16_Witness ==
    \E c \in Cpus :
        /\ pc[c] = "pf_set"
        /\ IF loc[c].todo = <<>> THEN FALSE
           ELSE /\ Head(loc[c].todo) \in InitializedPages
                /\ ptes[Head(loc[c].todo)].present
                /\ \E p \in DOMAIN loc[c].raw : loc[c].raw[p] = StalePage
                /\ \A p \in DOMAIN loc[c].mem : loc[c].mem[p] = ZeroPage
----------------------------------------------------------------------------
(* The shard locks: what each call locks and unlocks, in the order of its  *)
(* WITH_LOCK and SCOPE_LOCK scopes, taken one lock operation per step      *)

MaxOpsLocks == 3
LockOps == {"map_anon", "map_anon_populate", "map_anon_fixed", "munmap",
            "mprotect", "madvise", "msync", "vm_fault"}

Lock(m, w, mode) == [a |-> "lock", m |-> m, w |-> w, mode |-> mode]
Unlock(m, w, mode) == [a |-> "unlock", m |-> m, w |-> w, mode |-> mode]

(* WITH_LOCK(sb_mgr->vma_lock(addr).for_write() / for_read()) around a     *)
(* body, with w the owner of addr                                          *)
with_vma_lock(w, mode, body) ==
    <<Lock("vma", w, mode)>> \o body \o <<Unlock("vma", w, mode)>>

(* a reserve_range that takes the shard's vma_list_mutex inside its scope *)
reserve_range_locks_vma(c) ==
    <<Lock("fr", c, "w")>> \o with_vma_lock(c, "w", <<>>) \o <<Unlock("fr", c, "w")>>

(* reserve_range: SCOPE_LOCK(my.free_ranges_mutex.for_write()) *)
reserve_range_locks(c) == <<Lock("fr", c, "w"), Unlock("fr", c, "w")>>

(* evacuate(vma& dead): WITH_LOCK(free_ranges_lock(dead.start()).for_write()) *)
evacuate_vma_locks(d) == <<Lock("fr", d, "w"), Unlock("fr", d, "w")>>

(* evacuate(start, end): one evacuate(vma&) for each VMA it removes *)
RECURSIVE evacuate_locks(_)
evacuate_locks(dead) ==
    IF dead = <<>> THEN <<>>
    ELSE evacuate_vma_locks(Head(dead)) \o evacuate_locks(Tail(dead))

(* allocate(v, start, size, search) on CPU c, w the owner of start *)
allocate_locks(c, w, search, dead) ==
    (IF search THEN reserve_range_locks(c)
     ELSE with_vma_lock(w, "w", evacuate_locks(dead)))
    \o with_vma_lock(w, "w", <<>>)

(* the lock operations of a call on CPU c on an address owned by w, which  *)
(* removes VMAs whose starts are owned by the workers in dead              *)
lock_program(op, c, w, dead) ==
    IF op = "map_anon" THEN allocate_locks(c, c, TRUE, dead)
    ELSE IF op = "map_anon_populate"
    THEN allocate_locks(c, c, TRUE, dead) \o with_vma_lock(c, "w", <<>>)
    ELSE IF op = "map_anon_fixed" THEN allocate_locks(c, w, FALSE, dead)
    ELSE IF op = "munmap" THEN with_vma_lock(w, "w", evacuate_locks(dead))
    ELSE IF op \in {"mprotect", "madvise"} THEN with_vma_lock(w, "w", <<>>)
    ELSE with_vma_lock(w, "r", <<>>)

(* the VMAs a call removes: none, or one of any shard *)
DeadOwners == {<<>>} \cup {<<d>> : d \in Workers}

(* rwlock: a writer needs the lock free, a reader needs it free of writers *)
can_lock(e) ==
    IF e.m = "fr" THEN fr_lock[e.w] = NoThread
    ELSE IF e.mode = "w"
    THEN vma_list_mutex[e.w].writer = NoThread /\ vma_list_mutex[e.w].readers = {}
    ELSE vma_list_mutex[e.w].writer = NoThread

LockCall(c, ops, maxops) ==
    /\ ~aborted /\ pc[c] = "idle" /\ nops < maxops
    /\ \E op \in ops, w \in Workers, dead \in DeadOwners :
        loc' = [loc EXCEPT ![c].op = op,
                           ![c].todo = lock_program(op, c, w, dead)]
    /\ pc' = [pc EXCEPT ![c] = "locks"]
    /\ nops' = nops + 1
    /\ UNCHANGED <<superblocks, free_ranges, vma_list, ptes, fr_lock, aborted,
                   handed, last>>
    /\ UNCHANGED ext

(* the call's next lock operation is done; after the last the call returns *)
LockNext(c) ==
    IF Len(loc[c].todo) = 1
    THEN /\ pc' = [pc EXCEPT ![c] = "idle"]
         /\ loc' = [loc EXCEPT ![c] = IdleLoc]
    ELSE /\ loc' = [loc EXCEPT ![c].todo = Tail(@)]
         /\ UNCHANGED pc

NextLockOp(c) == IF loc[c].todo = <<>> THEN Lock("none", 0, "w") ELSE Head(loc[c].todo)

LockVma(c) ==
    /\ ~aborted /\ pc[c] = "locks"
    /\ LET e == NextLockOp(c)
       IN /\ e.a = "lock" /\ e.m = "vma"
          /\ can_lock(e)
          /\ vma_list_mutex' =
                IF e.mode = "w" THEN [vma_list_mutex EXCEPT ![e.w].writer = c]
                ELSE [vma_list_mutex EXCEPT ![e.w].readers = @ \cup {c}]
    /\ LockNext(c)
    /\ UNCHANGED <<superblocks, free_ranges, vma_list, ptes, fr_lock, aborted,
                   handed, last, nops, page_table_high_mutex, rcu, frames, vma_range_set>>

UnlockVma(c) ==
    /\ ~aborted /\ pc[c] = "locks"
    /\ LET e == NextLockOp(c)
       IN /\ e.a = "unlock" /\ e.m = "vma"
          /\ vma_list_mutex' =
                IF e.mode = "w" THEN [vma_list_mutex EXCEPT ![e.w].writer = NoThread]
                ELSE [vma_list_mutex EXCEPT ![e.w].readers = @ \ {c}]
    /\ LockNext(c)
    /\ UNCHANGED <<superblocks, free_ranges, vma_list, ptes, fr_lock, aborted,
                   handed, last, nops, page_table_high_mutex, rcu, frames, vma_range_set>>

LockFreeRanges(c) ==
    /\ ~aborted /\ pc[c] = "locks"
    /\ LET e == NextLockOp(c)
       IN /\ e.a = "lock" /\ e.m = "fr"
          /\ can_lock(e)
          /\ fr_lock' = [fr_lock EXCEPT ![e.w] = c]
    /\ LockNext(c)
    /\ UNCHANGED <<superblocks, free_ranges, vma_list, ptes, aborted, handed, last,
                   nops>>
    /\ UNCHANGED ext

UnlockFreeRanges(c) ==
    /\ ~aborted /\ pc[c] = "locks"
    /\ LET e == NextLockOp(c)
       IN /\ e.a = "unlock" /\ e.m = "fr"
          /\ fr_lock' = [fr_lock EXCEPT ![e.w] = NoThread]
    /\ LockNext(c)
    /\ UNCHANGED <<superblocks, free_ranges, vma_list, ptes, aborted, handed, last,
                   nops>>
    /\ UNCHANGED ext

NextLocks ==
    \E c \in Cpus :
        \/ LockCall(c, LockOps, MaxOpsLocks)
        \/ LockVma(c)
        \/ UnlockVma(c)
        \/ LockFreeRanges(c)
        \/ UnlockFreeRanges(c)

SpecLocks == Init /\ [][NextLocks]_vars

HoldsFreeRanges(c) == \E w \in Workers : fr_lock[w] = c
WriteHeld(c) == {w \in Workers : vma_list_mutex[w].writer = c}
HoldsVma(c) ==
    \E w \in Workers : vma_list_mutex[w].writer = c \/ c \in vma_list_mutex[w].readers

(* the thread is inside a call and its next lock operation cannot be done *)
Blocked(c) ==
    /\ pc[c] = "locks"
    /\ NextLockOp(c).a = "lock"
    /\ ~can_lock(NextLockOp(c))

(* C18: no thread is about to take, or holds, a vma_list_mutex taken while *)
(* it held a free_ranges_mutex; no thread write-holds the vma_list_mutex   *)
(* of two shards; and the threads inside calls are never all blocked       *)
C18_LockOrderNoDeadlock ==
    /\ \A c \in Cpus :
          (pc[c] = "locks" /\ NextLockOp(c).a = "lock" /\ NextLockOp(c).m = "vma")
              => ~HoldsFreeRanges(c)
    /\ \A c \in Cpus : Cardinality(WriteHeld(c)) <= 1
    /\ (\E c \in Cpus : pc[c] = "locks") =>
          \E c \in Cpus : pc[c] = "locks" /\ ~Blocked(c)

(* one thread holds a vma_list_mutex for writing and, inside it, a         *)
(* free_ranges_mutex, while another thread waits for one of the two        *)
C18_Witness ==
    \E c \in Cpus, d \in Cpus :
        /\ c # d
        /\ WriteHeld(c) # {} /\ HoldsFreeRanges(c)
        /\ Blocked(d)
        /\ \/ NextLockOp(d).m = "fr" /\ fr_lock[NextLockOp(d).w] = c
           \/ NextLockOp(d).m = "vma" /\ NextLockOp(d).w \in WriteHeld(c)
----------------------------------------------------------------------------
(* allocate_superblocks(n) and reserve_range(size) called from threads on  *)
(* distinct CPUs, each call remembering the table and the maps it found    *)

MaxOpsAlloc == 3
AllocCounts == {1, 2}
AllocSizes == {page_size, huge_page_size, superblock_size - page_size}

(* reserve_range(size), with the state at the call kept in the locals *)
CallReserveRange(c) ==
    /\ ~aborted /\ pc[c] = "idle" /\ nops < MaxOpsAlloc
    /\ \E size \in AllocSizes :
         loc' = [loc EXCEPT ![c] =
                    [IdleLoc EXCEPT !.op = "reserve_range", !.size = size,
                                    !.pre = [sb |-> superblocks,
                                             fr |-> free_ranges]]]
    /\ pc' = [pc EXCEPT ![c] = "rr_enter"]
    /\ nops' = nops + 1
    /\ UNCHANGED <<superblocks, free_ranges, vma_list, ptes, fr_lock, aborted,
                   handed, last>>
    /\ UNCHANGED ext

(* allocate_superblocks(n): unsigned k{0}, i{0} *)
CallAllocate(c) ==
    /\ ~aborted /\ pc[c] = "idle" /\ nops < MaxOpsAlloc
    /\ \E n \in AllocCounts :
         loc' = [loc EXCEPT ![c] =
                    [IdleLoc EXCEPT !.op = "allocate_superblocks", !.n = n,
                                    !.pre = [sb |-> superblocks,
                                             fr |-> free_ranges]]]
    /\ pc' = [pc EXCEPT ![c] = "as_scan"]
    /\ nops' = nops + 1
    /\ UNCHANGED <<superblocks, free_ranges, vma_list, ptes, fr_lock, aborted,
                   handed, last>>
    /\ UNCHANGED ext

(* allocate_superblocks: return i-n+1 *)
AllocReturn(c) ==
    /\ ~aborted /\ pc[c] = "rr_finish"
    /\ loc[c].op = "allocate_superblocks"
    /\ last' = [Done("allocate_superblocks", c, loc[c].j, 0, "ok")
                   EXCEPT !.pre = loc[c].pre, !.val = loc[c].n]
    /\ pc' = [pc EXCEPT ![c] = "idle"]
    /\ loc' = [loc EXCEPT ![c] = IdleLoc]
    /\ UNCHANGED <<superblocks, free_ranges, vma_list, ptes, fr_lock, aborted,
                   handed, nops>>
    /\ UNCHANGED ext

NextAlloc ==
    \E c \in Cpus :
        \/ CallReserveRange(c)
        \/ CallAllocate(c)
        \/ ReserveFit(c)
        \/ ReserveNoFit(c)
        \/ AllocScan(c)
        \/ AllocEnomem(c)
        \/ AllocCas(c)
        \/ ReleaseStep(c)
        \/ ReleaseOutOfBounds(c)
        \/ ReleaseDone(c)
        \/ ReserveFinish(c)
        \/ AllocReturn(c)

SpecAlloc == Init /\ [][NextAlloc]_vars
----------------------------------------------------------------------------
(* Properties of allocate_superblocks, release_superblocks, reserve_range  *)

(* thread c takes a step of release_superblocks: the failure path of       *)
(* allocate_superblocks. The CAS loop returns on its first success, so on  *)
(* this path the attempt has claimed no slot                               *)
ReleaseStepOf(c) ==
    /\ pc[c] = "release" /\ loc[c].rel_i < loc[c].rel_end
    /\ (loc'[c].rel_i # loc[c].rel_i \/ (aborted' /\ ~aborted))

(* C21: on the failure path of allocate_superblocks (a lost or spuriously  *)
(* failed CAS) the only slots whose value changes are slots the caller     *)
(* claimed during that attempt, of which there are none: no slot of        *)
(* another CPU and no slot the caller claimed earlier changes, and no      *)
(* index outside 0 .. superblock_len - 1 is accessed                       *)
C21_FailurePathTouchesOnlyOwnClaims ==
    [][\A c \in Cpus :
         ReleaseStepOf(c) =>
             /\ superblocks' = superblocks
             /\ loc[c].rel_i < superblock_len]_vars

HasRun(sb, n) ==
    \E s \in 0 .. (superblock_len - n) :
        \A t \in s .. (s + n - 1) : sb[t] = FREE

FirstRun(sb, n) ==
    MinOf({s \in 0 .. (superblock_len - n) :
              \A t \in s .. (s + n - 1) : sb[t] = FREE})

Allocated == AllIdle /\ last.op = "allocate_superblocks" /\ last.res = "ok"

(* C22: when allocate_superblocks(n) returns s, the n slots s .. s+n-1     *)
(* were FREE before the call and hold the caller's CPU id afterwards, and  *)
(* s starts the first run of n consecutive FREE slots                      *)
C22_AllocateClaimsFirstRun ==
    Allocated =>
        /\ \A t \in last.addr .. (last.addr + last.val - 1) :
              /\ t < superblock_len
              /\ last.pre.sb[t] = FREE
              /\ superblocks[t] = last.cpu
        /\ HasRun(last.pre.sb, last.val)
        /\ last.addr = FirstRun(last.pre.sb, last.val)

(* the last call entered the allocator when no run of n FREE slots existed *)
(* and, for reserve_range, no interval of the caller's map was long enough *)
NothingToGive ==
    /\ AllIdle /\ last.op \in AllocatorCalls
    /\ ~HasRun(last.pre.sb, IF last.op = "reserve_range" THEN 1 ELSE last.val)
    /\ last.op = "reserve_range" =>
           FitKeys(last.pre.fr[last.cpu], last.size) = {}

(* C23: with no run of n consecutive FREE slots, allocate_superblocks(n),  *)
(* and with it a reserve_range that finds no fitting interval, fails with  *)
(* ENOMEM, the caller gains no slot and its free-range map is unchanged    *)
C23_EnomemLeavesStateAlone ==
    NothingToGive =>
        /\ last.res = "ENOMEM"
        /\ free_ranges[last.cpu] = last.pre.fr[last.cpu]
        /\ \A s \in DOMAIN superblocks :
              superblocks[s] = last.cpu => last.pre.sb[s] = last.cpu

(* the addresses a free-range map holds *)
FreeSet(fr) == UNION {k .. (k + fr[k] - 1) : k \in DOMAIN fr}

Reserved == AllIdle /\ last.op = "reserve_range" /\ last.res = "ok"

(* the call found an interval long enough in the caller's map *)
FoundFit == FitKeys(last.pre.fr[last.cpu], last.size) # {}

ReturnedRange == last.addr .. (last.addr + last.size - 1)

(* C27: reserve_range(size) on CPU c returns a range inside the            *)
(* lowest-keyed interval of worker c's map whose length is >= size, which  *)
(* is gone from the map on return, and claims no superblock; when no       *)
(* interval is long enough it claims a new superblock, returns its first   *)
(* size bytes and frees the superblock_size - size bytes after them        *)
C27_ReserveFirstFitOrNewSuperblock ==
    Reserved =>
        LET c == last.cpu
            before == last.pre.fr[c]
            after == free_ranges[c]
        IN IF FoundFit
           THEN LET k == MinOf(FitKeys(before, last.size))
                IN /\ ReturnedRange \subseteq k .. (k + before[k] - 1)
                   /\ FreeSet(after) = FreeSet(before) \ ReturnedRange
                   /\ \A s \in DOMAIN superblocks :
                         superblocks[s] = c => last.pre.sb[s] = c
           ELSE /\ \E s \in DOMAIN superblocks :
                      /\ last.addr = superblock_ptr(s)
                      /\ last.pre.sb[s] # c
                      /\ superblocks[s] = c
                /\ FreeSet(after) =
                      FreeSet(before) \cup
                          ((last.addr + last.size) ..
                               (last.addr + superblock_size - 1))
                /\ ReturnedRange \cap FreeSet(after) = {}
----------------------------------------------------------------------------
(* allocate_range and free_range called on the shared worker's free-range  *)
(* map, which the constructor fills with [0, superblock_area_base) and the *)
(* range above main_mem_area_base                                          *)

MaxOpsRanges == 3
RangeAddrs == {a \in 0 .. (superblock_area_base - 1) : a % page_size = 0}
RangeSizes == {0, page_size, huge_page_size}

(* [addr, addr+size) meets no interval of fr *)
DisjointFromAll(fr, addr, size) ==
    \A k \in DOMAIN fr : addr + size <= k \/ k + fr[k] <= addr

(* allocate_range(addr, size); a failed assertion aborts the kernel *)
AllocateRange(c) ==
    /\ ~aborted /\ pc[c] = "idle" /\ nops < MaxOpsRanges
    /\ \E addr \in RangeAddrs, size \in RangeSizes \ {0} :
         LET i == owner(superblocks, addr)
             r == allocate_range(free_ranges[i], addr, size)
         IN /\ free_ranges' = [free_ranges EXCEPT ![i] = r.fr]
            /\ aborted' = ~r.ok
            /\ last' = [Done("allocate_range", c, addr, size,
                             IF r.ok THEN "ok" ELSE "abort")
                           EXCEPT !.pre = free_ranges[i]]
    /\ nops' = nops + 1
    /\ UNCHANGED <<superblocks, vma_list, ptes, fr_lock, pc, loc, handed>>
    /\ UNCHANGED ext

(* free_range(addr, size): i = owner(addr), free_range(addr, size, i).    *)
(* The callers free what they hold: a range that meets no free interval    *)
FreeRange(c) ==
    /\ ~aborted /\ pc[c] = "idle" /\ nops < MaxOpsRanges
    /\ \E addr \in RangeAddrs, size \in RangeSizes :
         LET i == owner(superblocks, addr)
         IN /\ DisjointFromAll(free_ranges[i], addr, size)
            /\ free_ranges' = [free_ranges EXCEPT ![i] =
                                  free_range(free_ranges[i], addr, size)]
            /\ last' = [Done("free_range", c, addr, size, "ok")
                           EXCEPT !.pre = free_ranges[i]]
    /\ nops' = nops + 1
    /\ UNCHANGED <<superblocks, vma_list, ptes, fr_lock, pc, loc, aborted,
                   handed>>
    /\ UNCHANGED ext

NextRanges ==
    \E c \in OneCpu :
        \/ AllocateRange(c)
        \/ FreeRange(c)

SpecRanges == Init /\ [][NextRanges]_vars

(* free_range alone, on every map of disjoint intervals below              *)
(* superblock_area_base that the shared worker can hold                    *)
RangeLens == {0, page_size, huge_page_size}

ProperMaps ==
    UNION {{f \in [S -> RangeLens] :
               /\ \A a \in S : a + f[a] <= superblock_area_base
               /\ \A a \in S : \A b \in S : a < b => a + f[a] <= b}
           : S \in SUBSET RangeAddrs}

InitFree ==
    /\ superblocks = [s \in 0 .. (superblock_len - 1) |-> FREE]
    /\ \E f \in ProperMaps :
         free_ranges = [w \in Workers |->
                          IF w = shared_worker
                          THEN MapInsert(f, main_mem_area_base,
                                         Sub64(Bit63, main_mem_area_base))
                          ELSE EmptyMap]
    /\ vma_list = [w \in Workers |-> vma_list_type]
    /\ ptes = [p \in Pages |-> NoPte]
    /\ fr_lock = [w \in Workers |-> NoThread]
    /\ pc = [c \in Cpus |-> "idle"]
    /\ loc = [c \in Cpus |-> IdleLoc]
    /\ aborted = FALSE
    /\ handed = {}
    /\ last = NoLast
    /\ nops = 0
    /\ vma_list_mutex = [w \in Workers |-> Unlocked]
    /\ page_table_high_mutex = NoThread
    /\ rcu = NoRcu
    /\ frames = <<>>
    /\ vma_range_set = RangeSetInit

NextFree == \E c \in OneCpu : FreeRange(c)

SpecFree == InitFree /\ [][NextFree]_vars

(* the shard whose map the last call worked on *)
LastMap == free_ranges[owner(superblocks, last.addr)]

(* [addr, addr+size) lies inside the interval of fr that begins at b *)
InsideInterval(fr, b, addr, size) ==
    b <= addr /\ addr + size <= b + fr[b]

(* what is left of the interval at b once [addr, addr+size) is taken *)
Remainder(fr, b, addr, size) ==
    LET rest == MapErase(fr, b)
        head == IF addr > b THEN MapAssign(rest, b, addr - b) ELSE rest
    IN IF addr + size < b + fr[b]
       THEN MapAssign(head, addr + size, b + fr[b] - (addr + size))
       ELSE head

(* C24: when [addr, addr+size) is contained in an interval [b, b+l) of the *)
(* owner's map, allocate_range(addr, size) replaces that interval by       *)
(* [b, addr) if addr > b and [addr+size, b+l) if addr+size < b+l, at the   *)
(* head, in the middle and at the tail, and changes no other interval      *)
C24_AllocateRangeSplitsInterval ==
    last.op = "allocate_range" =>
        \A b \in DOMAIN last.pre :
            InsideInterval(last.pre, b, last.addr, last.size) =>
                /\ last.res = "ok"
                /\ LastMap = Remainder(last.pre, b, last.addr, last.size)

(* C25: allocate_range(addr, size) trips an assertion and leaves the map   *)
(* alone whenever [addr, addr+size) is not entirely inside one interval of *)
(* the owner's map                                                         *)
C25_AllocateRangeAssertsContainment ==
    last.op = "allocate_range" =>
        ((\A b \in DOMAIN last.pre :
              ~InsideInterval(last.pre, b, last.addr, last.size))
            => last.res = "abort" /\ LastMap = last.pre)

(* no two intervals of fr touch or overlap *)
NoneAdjacent(fr) ==
    \A a \in DOMAIN fr : \A b \in DOMAIN fr : a < b => a + fr[a] < b

(* the intervals of fr that end exactly at addr *)
EndsAt(fr, addr) == {b \in DOMAIN fr : b + fr[b] = addr}

FreedDisjoint ==
    /\ last.op = "free_range"
    /\ DisjointFromAll(last.pre, last.addr, last.size)

(* C26: after free_range(addr, size) of a range disjoint from every        *)
(* interval of the owner's map the free addresses are the old ones plus    *)
(* [addr, addr+size); an interval that ended at addr now reaches           *)
(* addr+size, an interval that began at addr+size is part of the interval  *)
(* holding addr; and a map without adjacent or overlapping intervals       *)
(* stays one                                                               *)
C26_FreeRangeMerges ==
    FreedDisjoint =>
        /\ FreeSet(LastMap) =
              FreeSet(last.pre) \cup (last.addr .. (last.addr + last.size - 1))
        /\ EndsAt(last.pre, last.addr) # {} =>
              \E b \in EndsAt(last.pre, last.addr) :
                  /\ b \in DOMAIN LastMap
                  /\ b + LastMap[b] >= last.addr + last.size
        /\ last.addr + last.size \in DOMAIN last.pre =>
              LET k == last.addr + last.size
              IN /\ \E m \in DOMAIN LastMap :
                       m <= last.addr /\ m + LastMap[m] >= k + last.pre[k]
                 /\ last.size > 0 => k \notin DOMAIN LastMap
        /\ NoneAdjacent(last.pre) => NoneAdjacent(LastMap)

(* a freed range that joined the interval before it to the one after it *)
C26_Witness ==
    /\ FreedDisjoint /\ last.size > 0 /\ NoneAdjacent(last.pre)
    /\ \E b \in DOMAIN last.pre : b + last.pre[b] = last.addr
    /\ last.addr + last.size \in DOMAIN last.pre
    /\ last.pre[last.addr + last.size] > 0
----------------------------------------------------------------------------
(* find_intersecting_vma, find_intersecting_vmas and generate_owner_list   *)
(* applied to registries of page-aligned, disjoint VMAs below              *)
(* superblock_area_base and in superblock 0                                *)

MaxOpsLookup == 1

(* the VMA sets drawn for the region that begins at base *)
VmaSets(base) ==
    LET v(s, e) == anon_vma(base + s, base + e, {"read", "write"}, {})
    IN {{}, {v(4, 8)}, {v(8, 12)}, {v(4, 12)}, {v(4, 8), v(8, 12)}}

LookupAddrs == {0, 3, 4, 7, 8, 11, 12, 16, 19, 20, 24, 28, 32, 47, 48, 52}
OwnerStarts == {0, 8, 16, 20, 32, 40, 48}
OwnerSizes == {4, 12, 16, 20, 32}

InitLookup ==
    /\ superblocks \in [0 .. (superblock_len - 1) -> Cpus \cup {FREE}]
    /\ \E low \in VmaSets(0) :
         \E high \in (IF superblocks[0] = FREE THEN {{}}
                      ELSE VmaSets(superblock_area_base)) :
            vma_list = [w \in Workers |->
                          vma_list_type \cup
                          {v \in low \cup high : owner(superblocks, v.start) = w}]
    /\ free_ranges = [w \in Workers |-> EmptyMap]
    /\ ptes = [p \in Pages |-> NoPte]
    /\ fr_lock = [w \in Workers |-> NoThread]
    /\ pc = [c \in Cpus |-> "idle"]
    /\ loc = [c \in Cpus |-> IdleLoc]
    /\ aborted = FALSE
    /\ handed = {}
    /\ last = NoLast
    /\ nops = 0
    /\ vma_list_mutex = [w \in Workers |-> Unlocked]
    /\ page_table_high_mutex = NoThread
    /\ rcu = NoRcu
    /\ frames = <<>>
    /\ vma_range_set = RangeSetInit

LookupFrame ==
    /\ UNCHANGED <<superblocks, free_ranges, vma_list, ptes, fr_lock, pc, loc,
                   handed>>
    /\ UNCHANGED ext

(* find_intersecting_vma(addr), for an address whose superblock is claimed *)
(* (workers[owner(addr)] is inside the array)                              *)
FindVma(c) ==
    /\ ~aborted /\ pc[c] = "idle" /\ nops < MaxOpsLookup
    /\ \E addr \in LookupAddrs :
         /\ owner(superblocks, addr) \in Workers
         /\ last' = [Done("find_intersecting_vma", c, addr, 0, "ok")
                        EXCEPT !.found =
                            find_intersecting_vma(
                                vma_list[owner(superblocks, addr)], addr)]
    /\ nops' = nops + 1
    /\ UNCHANGED aborted
    /\ LookupFrame

(* find_intersecting_vmas(addr_range(start, end)); its assertion aborts    *)
(* when the two ends of the range have different owners                    *)
FindVmas(c) ==
    /\ pc[c] = "idle" /\ nops < MaxOpsLookup /\ ~aborted
    /\ \E start \in LookupAddrs, end \in LookupAddrs :
         /\ start <= end
         /\ owner(superblocks, start) \in Workers
         /\ aborted' = ~SameOwner(superblocks, start, end)
         /\ IF SameOwner(superblocks, start, end)
            THEN last' = [Done("find_intersecting_vmas", c, start,
                               Sub64(end, start), "ok")
                             EXCEPT !.val = end,
                                    !.was = find_intersecting_vmas(
                                        vma_list[owner(superblocks, start)],
                                        start, end)]
            ELSE last' = [Done("find_intersecting_vmas", c, start,
                               Sub64(end, start), "abort")
                             EXCEPT !.val = end]
    /\ nops' = nops + 1
    /\ LookupFrame

(* generate_owner_list: the loop from offset i on. res[res.size()-1] on an *)
(* empty vector is undefined: the kernel crashes (ok = FALSE), or the      *)
(* store lands outside the vector and the loop goes on                     *)
RECURSIVE owner_list_loop(_, _, _, _, _, _, _)
owner_list_loop(sb, start, size, i, prev_owner, res, crash) ==
    IF ~(i < size) THEN [ok |-> TRUE, list |-> res]
    ELSE LET cur_owner == owner(sb, Add64(start, i))
             next_barrier ==
                 MinOf({align_up(Add64(Add64(start, i), 1), superblock_size),
                        Add64(start, size)})
             size_in_superblock == Sub64(next_barrier, Add64(start, i))
             piece == MinOf({superblock_size, Sub64(size, i)})
         IN IF prev_owner = cur_owner /\ res = <<>>
            THEN IF crash THEN [ok |-> FALSE, list |-> res]
                 ELSE owner_list_loop(sb, start, size,
                                      Add64(i, size_in_superblock),
                                      cur_owner, res, crash)
            ELSE IF prev_owner = cur_owner
            THEN LET prev == res[Len(res)]
                 IN owner_list_loop(
                        sb, start, size, Add64(i, size_in_superblock),
                        cur_owner,
                        [res EXCEPT ![Len(res)] =
                            [start |-> prev.start,
                             size |-> Add64(prev.size, piece),
                             owner |-> cur_owner]],
                        crash)
            ELSE owner_list_loop(
                     sb, start, size, Add64(i, size_in_superblock), cur_owner,
                     Append(res, [start |-> Add64(start, i), size |-> piece,
                                  owner |-> cur_owner]),
                     crash)

generate_owner_list(sb, start, size, crash) ==
    IF Add64(start, size) < superblock_area_base \/ start >= main_mem_area_base
    THEN [ok |-> TRUE,
          list |-> <<[start |-> start, size |-> size,
                      owner |-> owner(sb, start)]>>]
    ELSE owner_list_loop(sb, start, size, 0, FREE, <<>>, crash)

GenerateOwnerList(c) ==
    /\ ~aborted /\ pc[c] = "idle" /\ nops < MaxOpsLookup
    /\ \E start \in OwnerStarts, size \in OwnerSizes, crash \in BOOLEAN :
         LET r == generate_owner_list(superblocks, start, size, crash)
         IN /\ aborted' = ~r.ok
            /\ last' = [Done("generate_owner_list", c, start, size,
                             IF r.ok THEN "ok" ELSE "abort")
                           EXCEPT !.ev = r.list]
    /\ nops' = nops + 1
    /\ LookupFrame

NextLookup ==
    \E c \in OneCpu :
        \/ FindVma(c)
        \/ FindVmas(c)
        \/ GenerateOwnerList(c)

SpecLookup == InitLookup /\ [][NextLookup]_vars

(* the registry the last lookup searched *)
LastList == vma_list[owner(superblocks, last.addr)]

(* C28: find_intersecting_vma(addr) returns the VMA v of the owning shard  *)
(* with v.start <= addr < v.end when there is one and end() otherwise, at  *)
(* lower_vma_limit, at upper_vma_limit and next to a VMA as anywhere else, *)
(* and never a zero-size sentinel                                          *)
C28_FindVmaContainsAddr ==
    last.op = "find_intersecting_vma" =>
        LET hit == {v \in LastList : v.start <= last.addr /\ last.addr < v.end}
        IN /\ last.found \in hit \cup {NoVma}
           /\ hit # {} => last.found \in hit
           /\ last.found # NoVma => last.found.start < last.found.end

(* the VMAs of the slice find_intersecting_vmas returned *)
Slice == RangeVmas(LastList, last.was)

FoundVmas == last.op = "find_intersecting_vmas" /\ last.res = "ok"

(* C29: find_intersecting_vmas(r) returns a slice of the owning shard's    *)
(* registry holding exactly the VMAs that overlap r, the empty slice when  *)
(* r is empty or nothing overlaps                                          *)
C29_FindVmasExactSlice ==
    /\ last.op = "find_intersecting_vmas" /\ last.size = 0 => last.res = "ok"
    /\ FoundVmas =>
          Slice = {v \in LastList :
                      \E a \in last.addr .. (last.val - 1) :
                          v.start <= a /\ a < v.end}

(* the addresses of tuple t *)
TupleRange(t) == t.start .. (t.start + t.size - 1)

(* C30: for every start and every size > 0, generate_owner_list(start,     *)
(* size) returns a non-empty list of (start, length, owner) tuples that    *)
(* follow one another without gap or overlap from start to start+size and  *)
(* whose owner is the owner of every address of the tuple                  *)
C30_OwnerListCoversRange ==
    last.op = "generate_owner_list" =>
        /\ last.res = "ok"
        /\ last.ev # <<>>
        /\ last.ev[1].start = last.addr
        /\ \A n \in 1 .. (Len(last.ev) - 1) :
              last.ev[n + 1].start = last.ev[n].start + last.ev[n].size
        /\ last.ev[Len(last.ev)].start + last.ev[Len(last.ev)].size
              = last.addr + last.size
        /\ \A n \in 1 .. Len(last.ev) :
              /\ last.ev[n].size > 0
              /\ \A a \in TupleRange(last.ev[n]) :
                    owner(superblocks, a) = last.ev[n].owner

----------------------------------------------------------------------------
(* evacuate, split, protect and the advice walks applied to registries    *)
(* whose free-range map and VMAs partition superblock 0, which CPU 0 owns  *)

MaxOpsEvac == 2

(* what a page of superblock 0 holds: nothing, or a part of an anonymous   *)
(* VMA (read-write, read-only, or read-write and then protected with no    *)
(* permission) or of a mapping of the file                                 *)
PageLabels == {"free", "rw", "r", "file"}
ProtLabels == {"free", "rw", "none", "file"}
LayoutPages == {a \in superblock_area_base
                       .. (superblock_area_base + superblock_size - 1) :
                   a % page_size = 0}
(* where two mappings with the same label may meet *)
LayoutCut == superblock_area_base + huge_page_size

(* the run of pages labelled as a is, from its first page to its end *)
RECURSIVE RunStart(_, _, _)
RunStart(lab, cut, a) ==
    IF a = superblock_area_base \/ (cut /\ a = LayoutCut)
       \/ lab[a - page_size] # lab[a]
    THEN a ELSE RunStart(lab, cut, a - page_size)

RECURSIVE RunEnd(_, _, _)
RunEnd(lab, cut, a) ==
    IF a + page_size = superblock_area_base + superblock_size
       \/ (cut /\ a + page_size = LayoutCut)
       \/ lab[a + page_size] # lab[a]
    THEN a + page_size ELSE RunEnd(lab, cut, a + page_size)

(* the VMA of a run: anon_vma, or the piece of a map_file of the file at   *)
(* superblock_area_base that splits have left                              *)
LayoutVma(label, s, e) ==
    IF label = "file"
    THEN file_vma(s, e, {"read"}, {"shared", "file"}, s - superblock_area_base)
    ELSE anon_vma(s, e,
                  IF label = "rw" THEN {"read", "write"}
                  ELSE IF label = "r" THEN {"read"} ELSE {}, {})

LayoutVmas(lab, cut) ==
    {LayoutVma(lab[a], RunStart(lab, cut, a), RunEnd(lab, cut, a)) :
        a \in {b \in LayoutPages : lab[b] # "free"}}

(* the free-range map of a layout: one interval per run of free pages *)
LayoutFree(lab) ==
    LET starts == {a \in LayoutPages :
                      lab[a] = "free" /\ RunStart(lab, FALSE, a) = a}
    IN [a \in starts |-> RunEnd(lab, FALSE, a) - a]

(* populate_vma over each VMA of vs in turn; a VMA without permission was  *)
(* populated read-write before protect() took its permissions             *)
RECURSIVE PopulateAll(_, _)
PopulateAll(pt, vs) ==
    IF vs = {} THEN pt
    ELSE LET v == CHOOSE x \in vs : \A y \in vs : x.start <= y.start
             size == v.end - v.start
         IN PopulateAll(
                IF v.perm = {}
                THEN protection(
                         populate_vma(pt, [v EXCEPT !.perm = {"read", "write"}],
                                      v.start, size),
                         v.start, size, {})
                ELSE populate_vma(pt, v, v.start, size),
                vs \ {v})

(* pte_mark_cow(pte, true) on the 4 KiB entries of the pages cows that are *)
(* present                                                                 *)
MarkCow(pt, cows) ==
    [p \in DOMAIN pt |->
        IF p \in cows /\ pt[p].present /\ ~pt[p].large
        THEN [pt[p] EXCEPT !.writable = FALSE, !.cow = TRUE]
        ELSE pt[p]]

(* CPU 0 has claimed superblock 0 and mapped, protected and unmapped in    *)
(* it; the anonymous VMAs were mapped with mmap_populate, or none was; the *)
(* entries of one of the page sets cowsets are marked copy-on-write        *)
LayoutInit(labels, cowsets) ==
    /\ superblocks = [s \in 0 .. (superblock_len - 1) |->
                        IF s = 0 THEN MinOf(Cpus) ELSE FREE]
    /\ \E lab \in [LayoutPages -> labels], cut \in BOOLEAN,
          populated \in BOOLEAN, cows \in cowsets :
         /\ vma_list = [w \in Workers |->
                          IF w = MinOf(Cpus)
                          THEN vma_list_type \cup LayoutVmas(lab, cut)
                          ELSE vma_list_type]
         /\ free_ranges = [w \in Workers |->
                             IF w = MinOf(Cpus) THEN LayoutFree(lab)
                             ELSE IF w = shared_worker
                             THEN MapInsert(
                                      MapInsert(EmptyMap, 0, superblock_area_base),
                                      main_mem_area_base,
                                      Sub64(Bit63, main_mem_area_base))
                             ELSE EmptyMap]
         /\ ptes = IF populated
                   THEN MarkCow(
                            PopulateAll([p \in Pages |-> NoPte],
                                        {v \in LayoutVmas(lab, cut) :
                                            v.kind = "anon"}),
                            cows)
                   ELSE [p \in Pages |-> NoPte]
    /\ fr_lock = [w \in Workers |-> NoThread]
    /\ pc = [c \in Cpus |-> "idle"]
    /\ loc = [c \in Cpus |-> IdleLoc]
    /\ aborted = FALSE
    /\ handed = {}
    /\ last = NoLast
    /\ nops = 0
    /\ vma_list_mutex = [w \in Workers |-> Unlocked]
    /\ page_table_high_mutex = NoThread
    /\ rcu = NoRcu
    /\ frames = <<>>
    /\ vma_range_set = RangeSetInit

InitEvac == LayoutInit(PageLabels, {{}})

LayoutLens == {page_size, 2 * page_size, superblock_size}

NextUnmap == \E c \in OneCpu : Munmap(c, LayoutPages, LayoutLens, MaxOpsEvac)

SpecUnmap == InitEvac /\ [][NextUnmap]_vars

(* what an entry maps: its flags and its page, whatever the level of the   *)
(* entry that holds it                                                     *)
Translation(pte) ==
    [present |-> pte.present, valid |-> pte.valid, writable |-> pte.writable,
     executable |-> pte.executable, rsvd |-> pte.rsvd, data |-> pte.data]

(* the last call was a munmap that evacuated its range *)
Evacuated == last.op = "munmap" /\ last.res = "ok" /\ AllIdle

(* the VMA that v leaves over [s, e), a part of v's range *)
Truncated(v, s, e) ==
    [v EXCEPT !.start = s, !.end = e,
              !.off = IF v.kind = "anon" THEN 0 ELSE v.off + (s - v.start)]

(* C31: after evacuate(start, end), as munmap runs it: no VMA of the shard *)
(* intersects [start, end); a VMA that straddled start or end is left as   *)
(* its part outside the range with its perm and flags; every VMA and every *)
(* page-table entry outside the range is as it was; and the range is in    *)
(* the shard's free-range map                                              *)
C31_EvacuateRemovesExactlyRange ==
    Evacuated =>
        LET s == last.addr
            e == last.addr + last.size
            w == owner(superblocks, s)
            B == last.was
        IN /\ \A v \in vma_list[w] : ~(v.start < e /\ s < v.end)
           /\ \A v \in B.vl[w] :
                /\ v.start < s /\ s < v.end =>
                       Truncated(v, v.start, s) \in vma_list[w]
                /\ v.start < e /\ e < v.end =>
                       Truncated(v, e, v.end) \in vma_list[w]
           /\ \A x \in Workers : \A v \in B.vl[x] :
                v.end <= s \/ v.start >= e => v \in vma_list[x]
           /\ \A x \in Workers : \A v \in vma_list[x] :
                \/ v \in B.vl[x]
                \/ \E u \in B.vl[w] :
                     x = w /\ v \in {Truncated(u, u.start, s),
                                     Truncated(u, e, u.end)}
           /\ \A p \in Pages :
                ~(s <= p /\ p < e) =>
                    Translation(ptes[p]) = Translation(B.pt[p])
           /\ FreeSet(free_ranges[w]) = FreeSet(B.fr[w]) \cup (s .. (e - 1))
           /\ \A x \in Workers \ {w} : free_ranges[x] = B.fr[x]

(* a munmap of the middle of a populated VMA that has a neighbour with     *)
(* another protection                                                      *)
C31_Witness ==
    /\ Evacuated
    /\ \E v \in last.was.vl[owner(superblocks, last.addr)] :
         /\ v.start < last.addr /\ last.addr + last.size < v.end
         /\ last.was.pt[last.addr].present
    /\ \E u \in vma_list[owner(superblocks, last.addr)] :
         u.perm = {"read"} /\ ptes[u.start].present

(* the edges split is called with: page boundaries in and around the       *)
(* superblock                                                              *)
SplitEdges == {a \in (superblock_area_base - page_size)
                     .. (superblock_area_base + superblock_size + page_size) :
                  a % page_size = 0}

(* v.split(edge) for a VMA v of the registry, as evacuate and protect call *)
(* it under the shard's VMA lock                                           *)
VmaSplit(c) ==
    /\ ~aborted /\ pc[c] = "idle" /\ nops < MaxOpsEvac
    /\ \E v \in vma_list[c], edge \in SplitEdges, ub \in BOOLEAN :
         /\ SetMem(split(superblocks, Mem, c, v, edge, ub))
         /\ last' = [Done("split", c, edge, 0, "ok")
                       EXCEPT !.found = v, !.was = Was]
    /\ nops' = nops + 1
    /\ UNCHANGED <<superblocks, fr_lock, pc, loc, handed>>
    /\ UNCHANGED ext

NextSplit == \E c \in OneCpu : VmaSplit(c)

SpecSplit == InitEvac /\ [][NextSplit]_vars

(* the file offset of address a of file VMA v: file_vma::offset *)
OffsetOf(v, a) == v.off + (a - v.start)

(* C32: v.split(edge) with v.start < edge < v.end replaces v by            *)
(* [v.start, edge) and [edge, v.end) in the same shard, both of v's kind   *)
(* with v's perm and flags, every address of a file VMA keeping its file   *)
(* offset; with edge <= v.start or edge >= v.end it changes nothing        *)
C32_SplitKeepsPermFlagsOffsets ==
    last.op = "split" =>
        LET v == last.found
            edge == last.addr
            w == last.cpu
            B == last.was
        IN /\ ~aborted
           /\ free_ranges = B.fr /\ ptes = B.pt
           /\ \A x \in Workers \ {w} : vma_list[x] = B.vl[x]
           /\ IF v.start < edge /\ edge < v.end
              THEN \E lo \in vma_list[w], hi \in vma_list[w] :
                     /\ vma_list[w] = (B.vl[w] \ {v}) \cup {lo, hi}
                     /\ lo.start = v.start /\ lo.end = edge
                     /\ hi.start = edge /\ hi.end = v.end
                     /\ \A n \in {lo, hi} :
                          /\ n.perm = v.perm /\ n.flags = v.flags
                          /\ n.kind = v.kind
                          /\ v.kind # "anon" =>
                               \A a \in n.start .. (n.end - 1) :
                                   OffsetOf(n, a) = OffsetOf(v, a)
              ELSE vma_list = B.vl

(* a split strictly inside a file VMA that does not start at offset 0 *)
C32_Witness ==
    /\ last.op = "split"
    /\ last.found.kind = "file" /\ last.found.off > 0
    /\ last.found.start < last.addr /\ last.addr < last.found.end
    /\ Cardinality(vma_list[last.cpu]) = Cardinality(last.was.vl[last.cpu]) + 1


----------------------------------------------------------------------------
(* mprotect over the layouts, some of whose entries are copy-on-write      *)

MaxOpsProtect == 1
ProtWalkPerms == {{}, {"read"}, {"write"}, {"read", "write"}}
CowSets == {{}, {superblock_area_base + superblock_size - page_size}}

InitProtect == LayoutInit(ProtLabels, CowSets)

NextProtect ==
    \E c \in OneCpu :
        Mprotect(c, LayoutPages, LayoutLens, ProtWalkPerms, MaxOpsProtect)

SpecProtect == InitProtect /\ [][NextProtect]_vars

(* the last call was an mprotect that ran protect() *)
Walks == last.op = "mprotect" /\ last.res \in {"ok", "EACCES", "EPERM"}

(* the indices of the events of the walk that begins at index k of ev *)
WalkEvents(ev, k) ==
    {j \in (k + 1) .. Len(ev) :
        \A m \in (k + 1) .. j : ev[m].e # "walk"}

(* the permissions an entry gives: none when it is not valid or has the    *)
(* reserved bit that change_perm sets for an empty perm                    *)
Held(pte) == IF pte.rsvd THEN {} ELSE old_perm(pte)

(* every walk of the call ends with one TLB flush if flush(p) for an entry *)
(* p it wrote, and has no flush otherwise                                  *)
FlushesWhen(flush(_)) ==
    \A k \in 1 .. Len(last.ev) :
        last.ev[k].e = "walk" =>
            LET W == WalkEvents(last.ev, k)
                F == {j \in W : last.ev[j].e = "flush"}
                needed == \E j \in W : /\ last.ev[j].e = "perm"
                                        /\ flush(last.ev[j].page)
            IN /\ Cardinality(F) = IF needed THEN 1 ELSE 0
               /\ \A j \in F : \A m \in W : m <= j

(* no entry that was copy-on-write is writable *)
CowNotWritable ==
    \A p \in Pages : last.before[p].cow => ptes[p].cow /\ ~ptes[p].writable

----------------------------------------------------------------------------
(* Threads faulting on one empty entry: the pages alloc_page gave them,    *)
(* which of them set_pte put in the entry, which were freed and for which  *)
(* populate::page called account                                           *)

FaultPcs == {"pf_pmd", "pf_page", "pf_alloc", "pf_fill", "pf_set"}

(* a thread is inside vm_fault with page p in the range it populates *)
Faulting(p) ==
    \E c \in Cpus : /\ pc[c] \in FaultPcs
                    /\ loc[c].fstart <= p
                    /\ p < loc[c].fstart + loc[c].fsize

(* the pages handed out to back page p, at either level *)
FramesOf(p) ==
    {k \in DOMAIN frames : p \in EntryPages(frames[k].level, frames[k].page)}

FrameSize(f) == IF f.level = 1 THEN huge_page_size ELSE page_size

(* frame k is with the thread that was given it, between alloc_page and    *)
(* the end of set_pte                                                      *)
InHand(k) == \E c \in Cpus : pc[c] \in {"pf_fill", "pf_set"} /\ loc[c].frame = k

(* C34: of the pages that threads faulting on one empty entry of an        *)
(* anonymous VMA allocate, exactly one is in the entry once their faults   *)
(* are over and it stays there; each of the others has been freed, once;   *)
(* and the size of the page is accounted by the one thread whose page it   *)
(* is, and by no other                                                     *)
C34_OneFaultWins ==
    /\ \A k \in DOMAIN frames :
          LET f == frames[k]
          IN /\ f.freed = (IF f.installed \/ InHand(k) THEN 0 ELSE 1)
             /\ f.counted = (IF f.installed THEN FrameSize(f) ELSE 0)
             /\ f.installed =>
                   \A p \in EntryPages(f.level, f.page) :
                       ptes[p].present /\ ptes[p].frame = k
    /\ \A p \in Pages :
          (FramesOf(p) # {} /\ ~Faulting(p)) =>
              Cardinality({k \in FramesOf(p) : frames[k].installed}) = 1

(* two threads were each given a page for the same empty entry; one of the *)
(* pages is in the entry, the other is freed, and both faults are over     *)
C34_Witness ==
    \E j \in DOMAIN frames, k \in DOMAIN frames :
        /\ frames[j].cpu # frames[k].cpu
        /\ frames[j].page = frames[k].page
        /\ frames[j].level = frames[k].level
        /\ frames[j].installed /\ frames[k].freed = 1
        /\ ~Faulting(frames[j].page)
        /\ ptes[frames[j].page].frame = j
----------------------------------------------------------------------------
(* madvise on the mappings of one superblock: the range starts at or       *)
(* inside a VMA, ends inside one, or spans several                         *)

MaxOpsAdvise == 1

NextAdvise == \E c \in OneCpu : Madvise(c, LayoutPages, LayoutLens, MaxOpsAdvise)

SpecAdvise == InitEvac /\ [][NextAdvise]_vars

Advised(advice) ==
    last.op = "madvise" /\ last.kind = advice /\ last.res = "ok"

(* C35: a madvise(addr, size, dontneed) that succeeds leaves every VMA     *)
(* list as it was, no entry present inside [addr, addr + size) and the     *)
(* translation of every page outside it as it was, wherever the range      *)
(* starts and ends among the VMAs                                          *)
C35_DontneedClearsExactlyRange ==
    Advised("dontneed") =>
        /\ vma_list = last.pre
        /\ \A p \in Pages :
              IF in_range(p, last.addr, last.size)
              THEN ~ptes[p].present
              ELSE Translation(ptes[p]) = Translation(last.before[p])
----------------------------------------------------------------------------
(* madvise(nohugepage) over anonymous VMAs with huge pages, and the faults *)
(* that follow                                                             *)

MaxOpsHuge == 3
HugeLabels == {"free", "rw", "none"}

InitHuge == LayoutInit(HugeLabels, {{}})

HugeAddrs == {a \in LayoutPages : a % huge_page_size = 0}
HugeLens == {huge_page_size, superblock_size}
TouchAddrs == {superblock_area_base + 1,
               superblock_area_base + huge_page_size + page_size}

NextHuge ==
    \E c \in OneCpu :
        \/ Madvise(c, HugeAddrs, HugeLens, MaxOpsHuge)
        \/ Access(c, TouchAddrs, AccessKinds, MaxOpsHuge)

SpecHuge == InitHuge /\ [][NextHuge]_vars

(* the VMAs that were exactly the range of the last call *)
WholeVmas ==
    {v \in UNION {last.pre[w] : w \in Workers} :
        /\ v.kind = "anon" /\ v.start < v.end
        /\ v.start = last.addr /\ v.end = last.addr + last.size}

(* v held a huge page before the last call *)
HadHugePage(v) ==
    \E p \in Pages : v.start <= p /\ p < v.end /\ last.before[p].large

(* C36: after madvise(nohugepage) over a whole anonymous VMA that holds a  *)
(* huge page the VMA has the small flag, none of its entries is large and  *)
(* every one that is present is a 4 KiB entry, every page translates as    *)
(* before with the permissions it had; and a later fault in a VMA with the *)
(* small flag puts in 4 KiB entries only                                   *)
C36_NoHugePageSplitsAndStays ==
    /\ Advised("nohugepage") =>
          \A v \in WholeVmas :
              HadHugePage(v) =>
                  /\ \E w \in Workers :
                        [v EXCEPT !.flags = @ \cup {"small"}] \in vma_list[w]
                  /\ \A p \in Pages :
                        (v.start <= p /\ p < v.end) =>
                            /\ ~ptes[p].large
                            /\ ptes[p].present => ptes[p].table
                  /\ \A p \in Pages :
                        Translation(ptes[p]) = Translation(last.before[p])
    /\ (last.op = "access" /\ last.fault /\ "small" \in last.found.flags) =>
          \A p \in Pages :
              (ptes[p].present /\ ~last.before[p].present) => ~ptes[p].large
----------------------------------------------------------------------------
(* The worker that vma_lock(addr) indexes at the start of a call           *)

(* C37: the address that munmap, mprotect, msync or madvise is called with *)
(* has an owner that is an index into workers, also when it lies in a      *)
(* superblock that no CPU has claimed, and the assertion of vma_lock holds *)
C37_OwnerIndexesWorkers ==
    (last.op \in RangeCalls /\ \A c \in Cpus : pc[c] = "idle") =>
        /\ owner(superblocks, last.addr) \in Workers
        /\ aborted => ~SameOwner(superblocks, last.addr, last.addr + last.size)
----------------------------------------------------------------------------
(* mprotect that fails part of the way through its range                   *)

MprotectErrors == {"ENOMEM", "EACCES", "EPERM"}

(* C38: an mprotect that returns ENOMEM, EACCES or EPERM has split no VMA, *)
(* changed no VMA's perm and written no page-table entry, also when the    *)
(* VMA that is refused comes after others in the range                     *)
C38_FailedMprotectChangesNothing ==
    (last.op = "mprotect" /\ last.res \in MprotectErrors) =>
        /\ vma_list = last.pre
        /\ ptes = last.before
----------------------------------------------------------------------------
(* reserve_range under fair scheduling: every thread that can take a step  *)
(* takes one in the end, and a compare_exchange_weak on a slot that holds  *)
(* the expected value does not fail every time it is tried                 *)

MaxOpsLive == 3

NextLive ==
    \E c \in Cpus : CallReserve(c, ReserveSizes, MaxOpsLive) \/ ReserveSteps(c)

(* the compare_exchange_weak of allocate_superblocks takes the slot *)
AllocCasWins(c) == AllocCas(c) /\ pc'[c] = "rr_finish"

SpecLive ==
    /\ Init /\ [][NextLive]_vars
    /\ \A c \in Cpus : WF_vars(ReserveSteps(c)) /\ SF_vars(AllocCasWins(c))

(* C39: under fair scheduling every call of reserve_range comes to its     *)
(* end, with an address or with ENOMEM, however often the threads lose the *)
(* compare-and-swap on a superblock slot                                   *)
C39_ReserveTerminates ==
    \A c \in Cpus : (pc[c] = "rr_enter") ~> (pc[c] = "idle")
----------------------------------------------------------------------------
(* vma_store::reserve over vma_range_set, the std::set of all VMA ranges   *)
(* ordered by start                                                        *)

MaxOpsStore == 3

(* vma_range_set.end() *)
NoRange == [start |-> NoKey, end |-> NoKey]

(* an insert that puts the range in whatever the set holds *)
range_set_add(S, r) == S \cup {r}

(* std::set::insert with vma_range_compare: an element that compares equal *)
(* (same start) keeps its place and the new one is dropped                 *)
range_set_insert(S, r) ==
    IF \E x \in S : x.start = r.start THEN S ELSE range_set_add(S, r)

(* std::lower_bound(begin, end, start, vma_range_addr_compare()) *)
range_lower_bound(S, start) ==
    LET ge == {x \in S : x.start >= start}
    IN IF ge = {} THEN NoRange
       ELSE CHOOSE x \in ge : \A y \in ge : x.start <= y.start

(* --p, for p past the first element *)
range_prev(S, p) ==
    LET lt == {x \in S : x.start < p.start}
    IN CHOOSE x \in lt : \A y \in lt : x.start >= y.start

(* std::next(p) *)
range_next(S, p) ==
    LET gt == {x \in S : x.start > p.start}
    IN IF gt = {} THEN NoRange
       ELSE CHOOSE x \in gt : \A y \in gt : x.start <= y.start

(* v->set(r, r + size); vma_range_set.insert(v); return r *)
reserve_take(S, r, size) ==
    [res |-> "ok", r |-> r,
     set |-> range_set_insert(S, [start |-> align_down(r, page_size),
                                  end |-> align_up(Add64(r, size), page_size)])]

(* after the loop: the last hole that was good enough, or ENOMEM *)
reserve_end(S, size, good_enough) ==
    IF good_enough # 0 THEN reserve_take(S, good_enough, size)
    ELSE [res |-> "ENOMEM", r |-> 0, set |-> S]

(* the while loop of reserve. n->start() with n == end() is undefined: ub  *)
(* says whether the kernel crashes there or reads a start above the limit  *)
RECURSIVE reserve_loop(_, _, _, _, _, _, _)
reserve_loop(S, p, n, start, size, good_enough, ub) ==
    IF n = NoRange
    THEN IF ub THEN [res |-> "abort", r |-> 0, set |-> S]
         ELSE reserve_end(S, size, good_enough)
    ELSE IF n.start > upper_vma_limit THEN reserve_end(S, size, good_enough)
    ELSE IF start >= p.end /\ Add64(start, size) <= n.start
    THEN reserve_take(S, start, size)
    ELSE IF p.end >= start /\ Sub64(n.start, p.end) >= size
    THEN IF size < huge_page_size THEN reserve_take(S, p.end, size)
         ELSE IF Sub64(n.start, align_up(p.end, huge_page_size)) >= size
         THEN reserve_take(S, align_up(p.end, huge_page_size), size)
         ELSE reserve_loop(S, n, range_next(S, n), start, size, p.end, ub)
    ELSE reserve_loop(S, n, range_next(S, n), start, size, good_enough, ub)

(* vma_store::reserve(v, start, size) *)
reserve(S, start, size, ub) ==
    LET lb == range_lower_bound(S, start)
        begin == CHOOSE x \in S : \A y \in S : x.start <= y.start
        p == IF lb # begin THEN range_prev(S, lb) ELSE lb
    IN reserve_loop(S, p, range_next(S, p), start, size, 0, ub)

(* the hints a caller passes: allocate() replaces a null hint before it    *)
(* asks for a hole                                                         *)
StoreStarts == {page_size, 2 * page_size, superblock_area_base + page_size,
                upper_vma_limit - 2 * page_size, upper_vma_limit + page_size}
StoreSizes == {page_size, huge_page_size, superblock_size,
               upper_vma_limit - page_size}

(* the linear mappings that vma_insert registers for a linear_vma *)
LinearRanges == {[start |-> upper_vma_limit + 2 * page_size,
                  end |-> upper_vma_limit + 4 * page_size]}

(* reserve, the whole of it under SCOPE_LOCK(vma_range_set_mutex.for_write) *)
StoreReserve(c, starts, sizes, maxops) ==
    /\ ~aborted /\ pc[c] = "idle" /\ nops < maxops
    /\ \E start \in starts, size \in sizes, ub \in BOOLEAN :
         LET R == reserve(vma_range_set, start, size, ub)
         IN /\ vma_range_set' = R.set
            /\ aborted' = (R.res = "abort")
            /\ handed' = IF R.res = "ok"
                         THEN handed \cup {[id |-> Cardinality(handed), cpu |-> c,
                                            start |-> R.r, size |-> size]}
                         ELSE handed
            /\ last' = [Done("reserve", c, R.r, size, R.res)
                          EXCEPT !.val = start, !.pre = vma_range_set]
    /\ nops' = nops + 1
    /\ UNCHANGED <<superblocks, free_ranges, vma_list, ptes, fr_lock, pc, loc>>
    /\ UNCHANGED <<vma_list_mutex, page_table_high_mutex, rcu, frames>>

(* vma_store::vma_insert of a linear_vma: the range goes into              *)
(* vma_range_set                                                           *)
(* if no range with its start is there                                     *)
StoreLinear(c, ranges, maxops) ==
    /\ ~aborted /\ pc[c] = "idle" /\ nops < maxops
    /\ \E r \in ranges :
         /\ r \notin vma_range_set
         /\ vma_range_set' = range_set_insert(vma_range_set, r)
         /\ last' = Done("vma_insert", c, r.start, r.end - r.start, "ok")
    /\ nops' = nops + 1
    /\ UNCHANGED <<superblocks, free_ranges, vma_list, ptes, fr_lock, pc, loc,
                   aborted, handed>>
    /\ UNCHANGED <<vma_list_mutex, page_table_high_mutex, rcu, frames>>

NextStore ==
    \E c \in Cpus :
        \/ StoreReserve(c, StoreStarts, StoreSizes, MaxOpsStore)
        \/ StoreLinear(c, LinearRanges, MaxOpsStore)

SpecStore == Init /\ [][NextStore]_vars

(* [s, s + size) and the range x have a byte in common *)
Overlaps(s, size, x) == s < x.end /\ x.start < s + size

(* S leaves no size bytes in a row free below upper_vma_limit *)
NoHole(S, size) ==
    \A a \in lower_vma_limit .. upper_vma_limit :
        a + size <= upper_vma_limit => \E x \in S : Overlaps(a, size, x)

(* C40: reserve ends by returning an address or throwing ENOMEM; an        *)
(* address r it returns has r + size <= upper_vma_limit and no byte of     *)
(* [r, r + size) lies in a range the set held at the call; the set holds   *)
(* the range when reserve returns; ENOMEM is thrown when the set leaves no *)
(* hole of size bytes; and the ranges returned by the calls so far are     *)
(* pairwise disjoint                                                       *)
C40_ReserveReturnsFreshHole ==
    /\ last.op = "reserve" =>
          /\ last.res \in {"ok", "ENOMEM"}
          /\ last.res = "ok" =>
                /\ last.addr + last.size <= upper_vma_limit
                /\ \A x \in last.pre : ~Overlaps(last.addr, last.size, x)
                /\ [start |-> last.addr, end |-> last.addr + last.size]
                      \in vma_range_set
          /\ NoHole(last.pre, last.size) => last.res = "ENOMEM"
    /\ \A x \in handed : \A y \in handed :
          x.id # y.id => RangesDisjoint(x.start, x.start + x.size,
                                        y.start, y.start + y.size)

=============================================================================
